---- MODULE Spec2Model ----
(***************************************************************************)
(* rv2aws: sizing-and-pricing engine of the RVTools to AWS cost estimator. *)
(*                                                                         *)
(* The specifications of this module share its variables:                  *)
(*   SpecResolve  the size resolver (aws_instance.get_correct_instance_    *)
(*                size and its helpers) over bounded catalogs/requests;    *)
(*   SpecResolveFair  the same with a thread that keeps running;           *)
(*   SpecPrice    get_least_expensive_option over bounded candidate lists; *)
(*   Spec         the thread-pool run of main(): workers, the lru_cache of *)
(*                get_price, the external price source, result collection, *)
(*                the CSV writer;                                          *)
(*   SpecFair     the same under the scheduling of the pool, with a query  *)
(*                that may never return;                                   *)
(*   SpecOs       the OS string on its way to a price category;            *)
(*   SpecMachine  find_aws_instance for one machine, call to return;       *)
(*   SpecLoad     main() from the catalog to the loaded tables.            *)
(*                                                                         *)
(* Units.  RAM sizes are integers counting half GiB (the catalog holds     *)
(* SizeInMiB / 1024, e.g. 0.5), so int(RAM) is r \div 2.  Prices are       *)
(* integers counting cents, so int(price) is p \div 100 and the            *)
(* "unavailable" value 0.0 is 0.                                           *)
(***************************************************************************)
EXTENDS Integers, Sequences, FiniteSets, TLC

(***************************************************************************)
(* Bounds of the model.                                                    *)
(***************************************************************************)
\* Largest number of offerings in a catalog of SpecResolve.
MaxTypes == 3
\* Number of resolver calls made one after another in SpecResolve.
MaxCalls == 2
\* Largest number of candidate offerings handed to get_least_expensive_option.
MaxCand == 3
\* Largest number of machines in the batch of Spec.
MaxHosts == 2
\* Largest --threads value (max_workers of the pool) tried in Spec.
MaxThreads == 2
\* Largest number of failed queries of the price source in one run of Spec.
MaxFaults == 1

\* Offering identifiers, by position in the catalog.
TypeNames == <<"a", "b", "c", "d", "e">>
\* vCPU counts and memory sizes (half GiB: 4, 8 and 16 GiB) offerings may have.
CpuVals == {2, 4}
RamVals == {8, 16, 32}
\* Requirements handed to the resolver (RAM in half GiB: 1, 5, 12, 16, 17 GiB).
CpuReqs == {1, 3, 4, 5}
RamReqs == {2, 10, 24, 32, 34}
\* Prices the price source may quote, in cents (0.50, 1.20, 1.50, 2.50 USD).
PriceVals == {50, 120, 150, 250}
\* OS strings of machines, as the words they contain ("" is the empty string).
OsStrings == {<<>>, <<"Ubuntu", "Linux">>, <<"Microsoft", "Windows">>}
\* Longest OS string of SpecOs, in words.
MaxOsLen == 3
\* The words OS strings of SpecOs are made of: the words of the os_map keys,
\* and others ("windows" differs from "Windows": the match is case-sensitive).
OsWords == {"CentOS", "Red", "Hat", "Windows", "SUSE", "Ubuntu", "windows"}

VARIABLES
    \* ---- resolver (SpecResolve) ----
    types,      \* the catalog: a sequence of [type, CPU, RAM]
    cpu, ram,   \* arguments of the running get_correct_instance_size call
    min_cpu,    \* local min_cpu
    min_ram,    \* local min_ram
    found,      \* local found
    rpc,        \* "idle" | "loop" | "returned" | "raised"
    iters,      \* loop iterations of the running call
    callNo,     \* calls started so far
    prev,       \* outcome of the previous call when it had the same arguments
    \* ---- get_least_expensive_option (SpecPrice) ----
    instances,  \* argument instances: the candidate list
    p_os,       \* argument os
    pm,         \* number of pricing models started (index into pricing_models)
    ppc,        \* "idle" | "loop" | "done" | "raised"
    idx,        \* position of the for loop in instances
    prices,     \* local dict prices, as <<instance, price>> in insertion order
    invalid_instances,            \* local list invalid_instances
    invalid_instance_types_count, \* the Counter passed to the call
    count0,     \* the Counter as it was when the call started
    quotes,     \* what get_price returned for each candidate so far
    result,     \* the returned type_and_cost
    \* ---- the run of main() (Spec) ----
    hosts,      \* the machine records, in submission order
    main_disks, \* the disk records
    report_rows,    \* what the CSV writer computed for each collected record
    threads,    \* args.threads
    task,       \* per submitted future: the locals of its process_host call
    cache,      \* the lru_cache of get_price: a set of <<key, value>>
    storage_cache,  \* the lru_cache of get_storage_cost: its value, -1 if empty
    faults,     \* failed queries of the price source so far, by kind
    consumed,   \* futures as_completed has yielded to main
    processed_host_records,
    processed_count,
    main_invalid_instance_types_count,  \* the Counter of main() (line 155)
    mainpc,     \* "collecting" | "done"
    \* ---- the OS string of one machine on its way to a price (SpecOs) ----
    os_text,    \* host.get('OS'), as the sequence of its words
    os_category,   \* os_type computed by get_price, "none" before
    opc,        \* "idle" | "given" | "priced" | "unpriced"
    \* ---- one find_aws_instance call (SpecMachine) ----
    m_host,     \* argument host
    m_disks,    \* argument disks
    m_instances,    \* local instances
    m_cost_details, \* local cost_details, in the order of pricing_models
    m_count,    \* local invalid_instance_types_count
    m_unit_price,   \* local price_per_gb_month, -1 before get_storage_cost returned
    m_storage,  \* local storage_cost
    m_record,   \* the returned host_with_cost_details
    m_exc,      \* the exception that left the call, "none" if none
    mpc,        \* "idle" | "called" | "pricing" | "storage" | "total" | "returned" | "none" | "raised"
    \* ---- main() from the catalog to the loaded tables (SpecLoad) ----
    raw_hosts,  \* the rows of the vCPU tab: [CPUs, Max, VM, OS] cells
    disk_table, \* the vDisk tab: [columns, rows]
    l_min_cpu,  \* local min_cpu of main, -1 before
    l_min_ram,  \* local min_ram of main, -1 before
    l_hosts,    \* local hosts of main
    l_disks,    \* local disks of main
    exit_status,    \* what main returned, -1 while it runs
    lpc         \* "idle" | "fetch" | "load" | "check" | "processing" | "exited"

rvars == <<types, cpu, ram, min_cpu, min_ram, found, rpc, iters, callNo, prev>>
pvars == <<instances, p_os, pm, ppc, idx, prices, invalid_instances,
           invalid_instance_types_count, count0, quotes, result>>

mvars == <<hosts, main_disks, report_rows, threads, task, cache, storage_cache, faults, consumed,
           processed_host_records, processed_count,
           main_invalid_instance_types_count, mainpc>>

ovars == <<os_text, os_category, opc>>

cvars == <<m_host, m_disks, m_instances, m_cost_details, m_count,
           m_unit_price, m_storage, m_record, m_exc, mpc>>

lvars == <<raw_hosts, disk_table, l_min_cpu, l_min_ram, l_hosts, l_disks,
           exit_status, lpc>>

xvars == <<ovars, cvars, lvars>>

vars == <<rvars, pvars, mvars, xvars>>

(***************************************************************************)
(* Helpers for Python values.                                              *)
(***************************************************************************)
SeqToSet(s) == {s[i] : i \in 1..Len(s)}

Min(S) == CHOOSE x \in S : \A y \in S : x <= y

\* sorted(values) of a set of numbers: ascending, no duplicates.
RECURSIVE SortedSeq(_)
SortedSeq(S) == IF S = {} THEN <<>>
                ELSE <<Min(S)>> \o SortedSeq(S \ {Min(S)})

\* int(x) of a RAM value held in half GiB.
IntPart(r) == r \div 2

Ok(v) == [ok |-> TRUE, val |-> v]
Raise(e) == [ok |-> FALSE, val |-> e]

(***************************************************************************)
(* utils.find_greater_than_or_equal                                        *)
(***************************************************************************)
\* bisect.bisect_left on a sorted list: the 0-based insertion point.
bisect_left(a, key) == Cardinality({i \in 1..Len(a) : a[i] < key})

\* Mutant: a[i - 1] is taken, the item below the key.
find_greater_than_or_equal_below(a, key) ==
    IF a = <<>> \/ key = 0 THEN Raise("AssertionError")
    ELSE LET i == bisect_left(a, key)
         IN  IF i = Len(a) THEN Raise("ValueError")
             ELSE Ok(a[IF i = 0 THEN 1 ELSE i])

find_greater_than_or_equal(a, key) ==
    IF a = <<>> \/ key = 0 THEN Raise("AssertionError")
    ELSE LET i == bisect_left(a, key)
         IN  IF i = Len(a) THEN Raise("ValueError") ELSE Ok(a[i + 1])

(***************************************************************************)
(* aws_instance: catalog helpers                                           *)
(***************************************************************************)
\* sorted(): a stable sort by the key (int(CPU), int(RAM)).
KeyLeq(x, y) == \/ x.CPU < y.CPU
                \/ x.CPU = y.CPU /\ IntPart(x.RAM) <= IntPart(y.RAM)

RECURSIVE InsertSorted(_, _)
InsertSorted(x, s) ==
    IF s = <<>> THEN <<x>>
    ELSE IF KeyLeq(s[1], x) THEN <<s[1]>> \o InsertSorted(x, Tail(s))
         ELSE <<x>> \o s

RECURSIVE SortedByKey(_)
SortedByKey(s) ==
    IF s = <<>> THEN <<>>
    ELSE InsertSorted(s[Len(s)], SortedByKey(SubSeq(s, 1, Len(s) - 1)))

MatchesOnly(c, r, ts) ==
    LET hit == SelectSeq(SortedByKey(ts), LAMBDA t : t.CPU = c /\ t.RAM = r)
    IN  [i \in 1..Len(hit) |-> hit[i].type]

\* Mutant: only the first match is kept.
lookup_type_first(c, r, ts) ==
    LET hit == MatchesOnly(c, r, ts)
    IN  IF hit = <<>> THEN <<>> ELSE <<hit[1]>>

\* Mutant: no sort; the scan stops at the first non-match after a match.
RECURSIVE MatchRun(_, _, _, _)
MatchRun(c, r, ts, seen) ==
    IF ts = <<>> THEN <<>>
    ELSE IF ts[1].CPU = c /\ ts[1].RAM = r
         THEN <<ts[1].type>> \o MatchRun(c, r, Tail(ts), TRUE)
         ELSE IF seen THEN <<>> ELSE MatchRun(c, r, Tail(ts), FALSE)

lookup_type_run(c, r, ts) == MatchRun(c, r, ts, FALSE)

lookup_type(c, r, ts) == MatchesOnly(c, r, ts)

extract_list_from_instance_types(key, ts) ==
    SortedSeq({IF key = "CPU" THEN ts[i].CPU ELSE ts[i].RAM : i \in 1..Len(ts)})

\* sizes.index(ram), 0-based; the value is always in the list here.
IndexOf(sizes, x) == Min({i \in 1..Len(sizes) : sizes[i] = x}) - 1

\* Mutant: the index is advanced twice, skipping a tier.
get_next_ram_size_skip(sizes, r) ==
    IF r = 0 \/ sizes = <<>> THEN Raise("AssertionError")
    ELSE LET current == IndexOf(sizes, r) + 2
         IN  IF Len(sizes) > current THEN Ok(sizes[current + 1])
             ELSE Raise("AssertionError")

\* Mutant: the tier is not advanced.
get_next_ram_size_same(sizes, r) ==
    IF r = 0 \/ sizes = <<>> THEN Raise("AssertionError")
    ELSE Ok(sizes[IndexOf(sizes, r) + 1])

get_next_ram_size(sizes, r) ==
    IF r = 0 \/ sizes = <<>> THEN Raise("AssertionError")
    ELSE LET current == IndexOf(sizes, r) + 1
         IN  IF Len(sizes) > current THEN Ok(sizes[current + 1])
             ELSE Raise("AssertionError")

(***************************************************************************)
(* get_correct_instance_size, one step per loop iteration                  *)
(***************************************************************************)
NoCall == [status |-> "none", found |-> {}]
Outcome == [status |-> rpc,
            found |-> IF rpc = "returned" THEN SeqToSet(found) ELSE {}]
Requests == CpuReqs \X RamReqs

ResolveCall(c, r) ==
    /\ rpc \in {"idle", "returned", "raised"}
    /\ callNo < MaxCalls
    /\ callNo' = callNo + 1
    /\ prev' = IF rpc # "idle" /\ <<c, r>> = <<cpu, ram>> THEN Outcome ELSE NoCall
    /\ cpu' = c
    /\ ram' = r
    /\ iters' = 0
    /\ found' = <<>>
    /\ \E mc \in {find_greater_than_or_equal(
                      extract_list_from_instance_types("CPU", types), c)} :
       \E mr \in {find_greater_than_or_equal(
                      extract_list_from_instance_types("RAM", types), r)} :
           IF c = 0 \/ r = 0 \/ ~mc.ok \/ ~mr.ok
           THEN /\ rpc' = "raised"
                /\ min_cpu' = 0
                /\ min_ram' = 0
           ELSE /\ rpc' = "loop"
                /\ min_cpu' = mc.val
                /\ min_ram' = mr.val
    /\ UNCHANGED <<types, pvars, mvars, xvars>>

\* One pass of the while body: lookup_type, then the advance to the next tier.
ResolveIterate ==
    /\ rpc = "loop"
    /\ found = <<>>
    /\ \E sorted_ram_size \in {extract_list_from_instance_types("RAM", types)} :
       \E nx \in {get_next_ram_size(sorted_ram_size, min_ram)} :
       \E adv \in {IF nx.ok THEN find_greater_than_or_equal(sorted_ram_size, nx.val)
                            ELSE nx} :
           /\ found' = lookup_type(min_cpu, min_ram, types)
           /\ iters' = iters + 1
           /\ IF nx.ok /\ adv.ok
              THEN /\ min_ram' = adv.val
                   /\ rpc' = "loop"
              ELSE /\ min_ram' = min_ram
                   /\ rpc' = "raised"
    /\ UNCHANGED <<types, cpu, ram, min_cpu, callNo, prev, pvars, mvars, xvars>>

\* The while test fails: return found.
ResolveReturn ==
    /\ rpc = "loop"
    /\ found # <<>>
    /\ rpc' = "returned"
    /\ UNCHANGED <<types, cpu, ram, min_cpu, min_ram, found, iters, callNo, prev, pvars, mvars, xvars>>

\* The same function as one operator, for catalogs other than the state's.
RECURSIVE ResolveLoop(_, _, _, _)
ResolveLoop(mc, mr, ts, f) ==
    IF f # <<>> THEN [status |-> "returned", found |-> f, exc |-> "none"]
    ELSE LET sizes == extract_list_from_instance_types("RAM", ts)
             nx == get_next_ram_size(sizes, mr)
         IN  IF ~nx.ok THEN [status |-> "raised", found |-> <<>>, exc |-> nx.val]
             ELSE ResolveLoop(mc, find_greater_than_or_equal(sizes, nx.val).val,
                              ts, lookup_type(mc, mr, ts))

get_correct_instance_size(c, r, ts) ==
    LET mc == find_greater_than_or_equal(extract_list_from_instance_types("CPU", ts), c)
        mr == find_greater_than_or_equal(extract_list_from_instance_types("RAM", ts), r)
    IN  IF c = 0 \/ r = 0 \/ ~mc.ok \/ ~mr.ok
        THEN [status |-> "raised", found |-> <<>>,
              exc |-> IF c = 0 \/ r = 0 THEN "AssertionError"
                      ELSE IF ~mc.ok THEN mc.val ELSE mr.val]
        ELSE ResolveLoop(mc.val, mr.val, ts, <<>>)

(***************************************************************************)
(* SpecResolve                                                             *)
(***************************************************************************)
Shapes == {[CPU |-> c, RAM |-> r] : c \in CpuVals, r \in RamVals}

Catalogs ==
    UNION {{[i \in 1..n |-> [type |-> TypeNames[i], CPU |-> f[i].CPU, RAM |-> f[i].RAM]]
              : f \in [1..n -> Shapes]} : n \in 1..MaxTypes}

\* The variables of get_least_expensive_option before any call.
PriceIdle ==
    /\ instances = <<>>
    /\ p_os = <<>>
    /\ pm = 0
    /\ ppc = "idle"
    /\ idx = 0
    /\ prices = <<>>
    /\ invalid_instances = <<>>
    /\ invalid_instance_types_count = [t \in SeqToSet(TypeNames) |-> 0]
    /\ count0 = [t \in SeqToSet(TypeNames) |-> 0]
    /\ quotes = <<>>
    /\ result = [Type |-> "None", Cost |-> 0, none |-> TRUE]

\* The variables of the run before main() starts.
RunIdle ==
    /\ hosts = <<>>
    /\ main_disks = <<>>
    /\ report_rows = <<>>
    /\ threads = 0
    /\ task = <<>>
    /\ cache = {}
    /\ storage_cache = -1
    /\ faults = [clienterror |-> 0, transport |-> 0]
    /\ consumed = {}
    /\ processed_host_records = <<>>
    /\ processed_count = 0
    /\ main_invalid_instance_types_count = [t \in SeqToSet(TypeNames) |-> 0]
    /\ mainpc = "idle"

\* No OS string is on its way to a price.
OsIdle ==
    /\ os_text = <<>>
    /\ os_category = "none"
    /\ opc = "idle"

\* No find_aws_instance call is being followed.
NoStorage == [Storage |-> 0, StorageCost |-> 0]
NoRecord == [VM |-> "none"]
MachineIdle ==
    /\ m_host = [VM |-> "none"]
    /\ m_disks = <<>>
    /\ m_instances = <<>>
    /\ m_cost_details = <<>>
    /\ m_count = [t \in SeqToSet(TypeNames) |-> 0]
    /\ m_unit_price = -1
    /\ m_storage = NoStorage
    /\ m_record = NoRecord
    /\ m_exc = "none"
    /\ mpc = "idle"

\* main() is not being followed through its loading.
LoadIdle ==
    /\ raw_hosts = <<>>
    /\ disk_table = [columns |-> TRUE, rows |-> <<>>]
    /\ l_min_cpu = -1
    /\ l_min_ram = -1
    /\ l_hosts = <<>>
    /\ l_disks = <<>>
    /\ exit_status = -1
    /\ lpc = "idle"

OthersIdle == OsIdle /\ MachineIdle /\ LoadIdle

InitResolve ==
    /\ OthersIdle
    /\ PriceIdle
    /\ RunIdle
    /\ types \in Catalogs
    /\ cpu = 0
    /\ ram = 0
    /\ min_cpu = 0
    /\ min_ram = 0
    /\ found = <<>>
    /\ rpc = "idle"
    /\ iters = 0
    /\ callNo = 0
    /\ prev = NoCall

NextResolve ==
    \/ \E q \in Requests : ResolveCall(q[1], q[2])
    \/ ResolveIterate
    \/ ResolveReturn

SpecResolve == InitResolve /\ [][NextResolve]_vars

\* The resolver in a thread that keeps running: a call that can take the next
\* step of its while loop takes it.
SpecResolveFair ==
    InitResolve /\ [][NextResolve]_vars /\ WF_vars(ResolveIterate \/ ResolveReturn)

(***************************************************************************)
(* Resolver claims (SpecResolve)                                           *)
(***************************************************************************)
Finished == rpc \in {"returned", "raised"}
CatCpus == {types[i].CPU : i \in 1..Len(types)}
CatRams == {types[i].RAM : i \in 1..Len(types)}
CpuCeilings == {c \in CatCpus : c >= cpu}
RamCeilings == {r \in CatRams : r >= ram}
OfferingsAt(c, r) ==
    {types[i].type : i \in {j \in 1..Len(types) : types[j].CPU = c /\ types[j].RAM = r}}
\* RAM tiers at or above the request that hold an offering with the ceiling CPU.
MatchTiers ==
    IF CpuCeilings = {} THEN {}
    ELSE {r \in RamCeilings : OfferingsAt(Min(CpuCeilings), r) # {}}
EntryOf(id) == types[CHOOSE i \in 1..Len(types) : types[i].type = id]

\* C1: every offering the resolver returns has vCPU >= cpuReq and memory >= the
\* smallest catalog RAM value >= ramReq (hence memory >= ramReq).
C1_NeverUnderProvision ==
    rpc = "returned" =>
        /\ found # <<>>
        /\ \A id \in SeqToSet(found) :
              /\ EntryOf(id).CPU >= cpu
              /\ EntryOf(id).RAM >= Min(RamCeilings)
              /\ EntryOf(id).RAM >= ram

\* C1 witness: a call returned after relaxing RAM upward, for a request below
\* the returned offering in both dimensions.
C1_Witness ==
    /\ rpc = "returned"
    /\ iters >= 2
    /\ EntryOf(found[1]).CPU > cpu
    /\ EntryOf(found[1]).RAM > Min(RamCeilings)

ExampleCatalog ==
    << [type |-> "a", CPU |-> 2, RAM |-> 8],
       [type |-> "b", CPU |-> 4, RAM |-> 16],
       [type |-> "c", CPU |-> 4, RAM |-> 32] >>

\* C2: a returned set is exactly the offerings at (C, R): C the smallest catalog
\* CPU value >= cpuReq, R the smallest catalog RAM value >= ramReq that has an
\* offering with vCPU = C; catalog a(2,4) b(4,8) c(4,16) with cpu=3, ram=5 gives {b}.
C2_GreedyCeilingResult ==
    /\ rpc = "returned" =>
          /\ MatchTiers # {}
          /\ SeqToSet(found) = OfferingsAt(Min(CpuCeilings), Min(MatchTiers))
    /\ (Finished /\ types = ExampleCatalog /\ cpu = 3 /\ ram = 10) =>
          (rpc = "returned" /\ found = <<"b">>)

\* C2 witness: the example call has returned.
C2_Witness ==
    /\ rpc = "returned"
    /\ types = ExampleCatalog
    /\ cpu = 3
    /\ ram = 10

\* C3 (as claimed): the resolver fails only when the RAM ladder is exhausted
\* without a match; a match at any tier >= ramReq, the maximum included, is returned.
C3_FailsOnlyWhenExhausted ==
    (Finished /\ MatchTiers # {}) =>
        /\ rpc = "returned"
        /\ SeqToSet(found) = OfferingsAt(Min(CpuCeilings), Min(MatchTiers))

\* C4: all offerings sharing the matched (vCPU, memory) pair are returned, once
\* each, and no offering with another pair is.
C4_AllAliasesReturned ==
    rpc = "returned" =>
        /\ Cardinality(SeqToSet(found)) = Len(found)
        /\ \A i \in 1..Len(types) :
              types[i].type \in SeqToSet(found)
                  <=> /\ types[i].CPU = EntryOf(found[1]).CPU
                      /\ types[i].RAM = EntryOf(found[1]).RAM

\* C4 witness: a call returned two or more offerings from a catalog that also
\* holds an offering of another shape.
C4_Witness ==
    /\ rpc = "returned"
    /\ Len(found) >= 2
    /\ Len(found) < Len(types)

Reorderings(ts) ==
    {[i \in 1..Len(ts) |-> ts[f[i]]] : f \in Permutations(1..Len(ts))}

\* C5: a finished call has the outcome of the earlier call with the same
\* arguments, and the outcome of a fresh call on every reordering of the catalog.
C5_ResolverDeterministic ==
    Finished =>
        /\ prev # NoCall => prev = Outcome
        /\ \A ts \in Reorderings(types) :
              LET again == get_correct_instance_size(cpu, ram, ts)
              IN  [status |-> again.status, found |-> SeqToSet(again.found)] = Outcome

\* C5 witness: a second call with the arguments of the first returned, on a
\* catalog whose order matters to a scan (offerings of different shapes).
C5_Witness ==
    /\ rpc = "returned"
    /\ callNo = 2
    /\ prev # NoCall
    /\ Cardinality({<<types[i].CPU, types[i].RAM>> : i \in 1..Len(types)}) >= 2

(***************************************************************************)
(* aws_pricing.get_price: what one call makes of the price source's answer *)
(***************************************************************************)
pricing_models == <<"onDemand", "1-year Reserved", "3-year Reserved">>

\* The keys of os_map in order, and the categories they map to.
os_map == << << <<"CentOS">>, "Linux/UNIX" >>,
             << <<"Red", "Hat">>, "Red Hat Enterprise Linux" >>,
             << <<"Windows">>, "Windows" >>,
             << <<"SUSE">>, "SUSE Linux" >> >>

\* k in os, for strings: k occurs in os as a run of adjacent words.
str_contains(os, k) ==
    \E i \in 1..(Len(os) - Len(k) + 1) : SubSeq(os, i, i + Len(k) - 1) = k

\* Mutant: the last matching key of os_map instead of the first.
os_type_last(os) ==
    LET hits == {i \in 1..Len(os_map) : str_contains(os, os_map[i][1])}
    IN  IF hits = {} THEN "Linux/UNIX"
        ELSE os_map[CHOOSE i \in hits : \A j \in hits : j <= i][2]

\* next((v for k, v in os_map.items() if k in os), "Linux/UNIX")
os_type(os) ==
    LET hits == {i \in 1..Len(os_map) : str_contains(os, os_map[i][1])}
    IN  IF hits = {} THEN "Linux/UNIX" ELSE os_map[Min(hits)][2]

\* Answers of the external price source to one query: a price list or reserved
\* offering quoting usd, no data, a botocore ClientError, or another failure
\* (connection, credentials), which is no ClientError.
Answers ==
    {[kind |-> "price", usd |-> u] : u \in PriceVals \cup {0}}
        \cup {[kind |-> k, usd |-> 0] : k \in {"nodata", "clienterror", "transport"}}

\* Mutant: ClientError is not caught.
get_price_answer_uncaught(answer) ==
    CASE answer.kind = "price" -> Ok(answer.usd)
      [] answer.kind = "nodata" -> Ok(0)
      [] answer.kind = "clienterror" -> Raise("ClientError")
      [] OTHER -> Raise("BotoCoreError")

\* The body of get_price after the query: the float returned, or the exception.
get_price_answer(answer) ==
    CASE answer.kind = "price" -> Ok(answer.usd)
      [] answer.kind = "nodata" -> Ok(0)
      [] answer.kind = "clienterror" -> Ok(0)
      [] OTHER -> Raise("BotoCoreError")

(***************************************************************************)
(* aws_pricing.get_least_expensive_option, one step per candidate, called  *)
(* once per pricing model with one Counter as find_aws_instance does       *)
(***************************************************************************)
\* int(price) of a price held in cents.
Dollars(p) == p \div 100

NoneResult == [Type |-> "None", Cost |-> 0, none |-> TRUE]

\* Mutant: a price below one dollar counts as unavailable.
is_unavailable_int(price) == Dollars(price) = 0

\* price is None or price == 0.0
is_unavailable(price) == price = 0

\* prices[instance] = price on an insertion-ordered dict.
DictSet(d, k, v) ==
    IF \E i \in 1..Len(d) : d[i][1] = k
    THEN [i \in 1..Len(d) |-> IF d[i][1] = k THEN <<k, v>> ELSE d[i]]
    ELSE Append(d, <<k, v>>)

\* sorted(items, key=lambda x: int(x[1])): stable.
RECURSIVE InsertByDollars(_, _)
InsertByDollars(x, s) ==
    IF s = <<>> THEN <<x>>
    ELSE IF Dollars(s[1][2]) <= Dollars(x[2])
         THEN <<s[1]>> \o InsertByDollars(x, Tail(s))
         ELSE <<x>> \o s

RECURSIVE SortedByDollars(_)
SortedByDollars(s) ==
    IF s = <<>> THEN <<>>
    ELSE InsertByDollars(s[Len(s)], SortedByDollars(SubSeq(s, 1, Len(s) - 1)))

\* Mutant: the most expensive survivor is taken.
select_last(d) ==
    IF d = <<>> THEN NoneResult
    ELSE LET sorted_prices == SortedByDollars(d)
         IN  [Type |-> sorted_prices[Len(d)][1],
              Cost |-> Dollars(sorted_prices[Len(d)][2]), none |-> FALSE]

\* Mutant: the candidate of the lowest price, cents included.
select_least_exact(d) ==
    IF d = <<>> THEN NoneResult
    ELSE LET k == CHOOSE i \in 1..Len(d) : \A j \in 1..Len(d) : d[i][2] <= d[j][2]
         IN  [Type |-> d[k][1], Cost |-> Dollars(d[k][2]), none |-> FALSE]

\* Lines 169-175: the first of the sorted prices, or None.
select_least(d) ==
    IF d = <<>> THEN NoneResult
    ELSE LET sorted_prices == SortedByDollars(d)
         IN  [Type |-> sorted_prices[1][1],
              Cost |-> Dollars(sorted_prices[1][2]), none |-> FALSE]

\* Mutant: the count is set, not incremented.
tally_price_lossy(st, instance, price) ==
    IF is_unavailable(price)
    THEN [st EXCEPT !.invalid = Append(@, instance), !.count[instance] = 1]
    ELSE [st EXCEPT !.prices = DictSet(@, instance, price)]

\* Lines 163-167: the locals [prices, invalid, count] after one candidate.
tally_price(st, instance, price) ==
    IF is_unavailable(price)
    THEN [st EXCEPT !.invalid = Append(@, instance), !.count[instance] = @ + 1]
    ELSE [st EXCEPT !.prices = DictSet(@, instance, price)]

\* The call for the next pricing model: the two guards, then the empty locals.
PriceCall ==
    /\ ppc \in {"idle", "done"}
    /\ pm < Len(pricing_models)
    /\ pm' = pm + 1
    /\ count0' = invalid_instance_types_count
    /\ prices' = <<>>
    /\ invalid_instances' = <<>>
    /\ quotes' = <<>>
    /\ idx' = 1
    /\ IF instances = <<>> \/ p_os = <<>>
       THEN /\ ppc' = "done"
            /\ result' = NoneResult
       ELSE /\ ppc' = "loop"
            /\ result' = result
    /\ UNCHANGED <<instances, p_os, invalid_instance_types_count, rvars, mvars, xvars>>

\* One pass of the for loop: get_price and the test of its value.
PriceEvaluate ==
    /\ ppc = "loop"
    /\ idx <= Len(instances)
    /\ \E answer \in Answers :
         LET got == get_price_answer(answer)
             instance == instances[idx]
         IN  IF ~got.ok
             THEN /\ ppc' = "raised"
                  /\ UNCHANGED <<idx, prices, invalid_instances,
                                 invalid_instance_types_count, quotes>>
             ELSE /\ ppc' = "loop"
                  /\ idx' = idx + 1
                  /\ quotes' = Append(quotes, got.val)
                  /\ LET st == tally_price([prices |-> prices,
                                              invalid |-> invalid_instances,
                                              count |-> invalid_instance_types_count],
                                             instance, got.val)
                     IN  /\ prices' = st.prices
                         /\ invalid_instances' = st.invalid
                         /\ invalid_instance_types_count' = st.count
    /\ UNCHANGED <<instances, p_os, pm, count0, result, rvars, mvars, xvars>>

\* After the loop: sort the prices and return.
PriceSelect ==
    /\ ppc = "loop"
    /\ idx > Len(instances)
    /\ result' = select_least(prices)
    /\ ppc' = "done"
    /\ UNCHANGED <<instances, p_os, pm, idx, prices, invalid_instances,
                   invalid_instance_types_count, count0, quotes, rvars, mvars, xvars>>

(***************************************************************************)
(* SpecPrice                                                               *)
(***************************************************************************)
ResolveIdle ==
    /\ types = <<>>
    /\ cpu = 0
    /\ ram = 0
    /\ min_cpu = 0
    /\ min_ram = 0
    /\ found = <<>>
    /\ rpc = "idle"
    /\ iters = 0
    /\ callNo = 0
    /\ prev = NoCall

InitPrice ==
    /\ OthersIdle
    /\ ResolveIdle
    /\ RunIdle
    /\ instances \in {SubSeq(TypeNames, 1, n) : n \in 0..MaxCand}
    /\ p_os \in OsStrings
    /\ pm = 0
    /\ ppc = "idle"
    /\ idx = 0
    /\ prices = <<>>
    /\ invalid_instances = <<>>
    /\ invalid_instance_types_count = [t \in SeqToSet(TypeNames) |-> 0]
    /\ count0 = [t \in SeqToSet(TypeNames) |-> 0]
    /\ quotes = <<>>
    /\ result = NoneResult

NextPrice ==
    \/ PriceCall
    \/ PriceEvaluate
    \/ PriceSelect

SpecPrice == InitPrice /\ [][NextPrice]_vars

(***************************************************************************)
(* Pricing claims (SpecPrice)                                              *)
(***************************************************************************)
\* Positions of the candidates whose price came back available / unavailable.
Available == {i \in 1..Len(quotes) : quotes[i] # 0}
Unavailable == {i \in 1..Len(quotes) : quotes[i] = 0}
QuoteOf(id) == quotes[CHOOSE i \in 1..Len(quotes) : instances[i] = id]

\* C6 (as claimed): the offering returned has a price <= the price of every
\* other candidate whose price is available.
C6_CheapestSelected ==
    (ppc = "done" /\ ~result.none) =>
        \A i \in Available : QuoteOf(result.Type) <= quotes[i]

\* The tally after the call: one more for each unavailable candidate.
TallyAdded ==
    \A t \in SeqToSet(TypeNames) :
        invalid_instance_types_count[t] =
            count0[t] + Cardinality({i \in Unavailable : instances[i] = t})

\* None when no candidate is available, else one of the available candidates.
ResultAmongAvailable ==
    IF Available = {} THEN result.none
    ELSE ~result.none /\ \E i \in Available : instances[i] = result.Type

Digits == <<"0", "1", "2", "3", "4", "5", "6", "7", "8", "9">>
DigitVal(ch) == (CHOOSE i \in 1..Len(Digits) : Digits[i] = ch) - 1

RECURSIVE int_digits(_)
\* int() of a string of digits.
int_digits(ds) ==
    IF ds = <<>> THEN 0
    ELSE 10 * int_digits(SubSeq(ds, 1, Len(ds) - 1)) + DigitVal(ds[Len(ds)])

\* Mutant: the digits before the first comma only.
parse_capacity_first_group(cap) ==
    LET commas == {i \in 1..Len(cap) : cap[i] = ","}
        upto == IF commas = {} THEN Len(cap) ELSE Min(commas) - 1
    IN  IF upto = 0 THEN Raise("ValueError") ELSE Ok(int_digits(SubSeq(cap, 1, upto)))

\* int(str(disk['Capacity']).replace(',', '')): ValueError unless digits remain.
parse_capacity(cap) ==
    LET ds == SelectSeq(cap, LAMBDA ch : ch # ",")
    IN  IF ds = <<>> \/ \E i \in 1..Len(ds) : ds[i] \notin SeqToSet(Digits)
        THEN Raise("ValueError")
        ELSE Ok(int_digits(ds))

RECURSIVE disk_loop(_, _, _, _)
\* The for loop of get_three_year_storage_cost from disk i on: every record of
\* the machine assigns mbytes.
disk_loop(vm, disks, i, mbytes) ==
    IF i > Len(disks) THEN Ok(mbytes)
    ELSE IF disks[i].VM = vm
         THEN LET parsed == parse_capacity(disks[i].Capacity)
              IN  IF parsed.ok THEN disk_loop(vm, disks, i + 1, parsed.val)
                  ELSE parsed
         ELSE disk_loop(vm, disks, i + 1, mbytes)

\* '%.2f' % (n / d) in cents: the whole numbers nearest to n / d. At a tie the
\* binary floating-point value decides, so both neighbours are possible.
format_cents(n, d) ==
    {q \in {n \div d, n \div d + 1} :
        2 * (IF q * d >= n THEN q * d - n ELSE n - q * d) <= d}

\* Answers of the price source to the storage query, and get_storage_cost on
\* them: the first price of the list, ValueError on an empty list; no exception
\* is caught.
StorageAnswers(unit_prices) ==
    {[kind |-> "price", usd |-> u] : u \in unit_prices}
        \cup {[kind |-> k, usd |-> 0] : k \in {"nodata", "clienterror", "transport"}}

get_storage_cost(answer) ==
    CASE answer.kind = "price" -> Ok(answer.usd)
      [] answer.kind = "nodata" -> Raise("ValueError")
      [] answer.kind = "clienterror" -> Raise("ClientError")
      [] OTHER -> Raise("BotoCoreError")

\* Mutant: the three-year cost from the unrounded monthly cost.
storage_cost_unrounded(price_per_gb_month, mbytes) ==
    format_cents(price_per_gb_month * mbytes * 12 * 3, 1000)

\* monthly_cost, yearly_cost and three_year_cost of
\* get_three_year_storage_cost: the three-year costs the floats may give.
storage_cost(price_per_gb_month, mbytes) ==
    UNION {format_cents(monthly_cost * 12 * 3, 1) :
              monthly_cost \in format_cents(price_per_gb_month * mbytes, 1000)}

\* get_three_year_storage_cost(host, disks): the outcomes it may have.
get_three_year_storage_cost(vm, disks, answer) ==
    IF disks = <<>> THEN {Raise("AssertionError")}
    ELSE LET price_per_gb_month == get_storage_cost(answer)
             mbytes == disk_loop(vm, disks, 1, 0)
         IN  IF ~price_per_gb_month.ok THEN {price_per_gb_month}
             ELSE IF ~mbytes.ok THEN {mbytes}
             ELSE {Ok([Storage |-> mbytes.val, StorageCost |-> c]) :
                      c \in storage_cost(price_per_gb_month.val, mbytes.val)}

\* Mutant: the storage cost is left out of the total.
get_total_cost_instance_only(type_and_cost, storage_cents) ==
    IF type_and_cost.none THEN 0 ELSE 100 * type_and_cost.Cost

\* get_total_cost: Instance Cost is whole dollars or None, Storage Cost cents.
get_total_cost(type_and_cost, storage_cents) ==
    LET instance_cost == IF type_and_cost.none THEN 0 ELSE 100 * type_and_cost.Cost
    IN  CHOOSE total \in format_cents(instance_cost + storage_cents, 1) : TRUE

\* Mutant: the record keeps the machine's name and OS only.
host_with_cost_details_without_size(host, cost_details, storage) ==
    [VM |-> host.VM, OS |-> host.OS,
     Type |-> cost_details[3].Type,
     Cost |-> cost_details[3].Cost,
     none |-> cost_details[3].none,
     Storage |-> storage.Storage,
     StorageCost |-> storage.StorageCost,
     Total |-> get_total_cost(cost_details[3], storage.StorageCost),
     CostDetails |-> cost_details]

\* Mutant: the on-demand entry is merged into the record.
host_with_cost_details_on_demand(host, cost_details, storage) ==
    [Type |-> cost_details[1].Type,
     Cost |-> cost_details[1].Cost,
     none |-> cost_details[1].none,
     Storage |-> storage.Storage,
     StorageCost |-> storage.StorageCost,
     Total |-> get_total_cost(cost_details[1], storage.StorageCost),
     CostDetails |-> cost_details] @@ host

\* find_aws_instance, lines 215-221: the merged record, {**host, ...}: the
\* fields of the host, those of the costs over them.
host_with_cost_details(host, cost_details, storage) ==
    [Type |-> cost_details[3].Type,
     Cost |-> cost_details[3].Cost,
     none |-> cost_details[3].none,
     Storage |-> storage.Storage,
     StorageCost |-> storage.StorageCost,
     Total |-> get_total_cost(cost_details[3], storage.StorageCost),
     CostDetails |-> cost_details] @@ host

(***************************************************************************)
(* The run: main() fans process_host out over a ThreadPoolExecutor         *)
(***************************************************************************)
\* The catalog of the run (RAM in half GiB): b and c share one shape, d is
\* alone at the largest RAM value, where the resolver raises.
RunCatalog ==
    << [type |-> "a", CPU |-> 2, RAM |-> 8],
       [type |-> "b", CPU |-> 4, RAM |-> 16],
       [type |-> "c", CPU |-> 4, RAM |-> 16],
       [type |-> "d", CPU |-> 4, RAM |-> 32] >>

\* Machine rows as load_host_records_from_csv and process_host_ram leave them
\* (CPUs and RAM at or above the catalog minimum), without the VM name; the
\* last is a record a pre_process extension left without its RAM field.
HostKinds ==
    { [CPUs |-> 2, RAM |-> 8,  OS |-> <<"Ubuntu", "Linux">>],
      [CPUs |-> 2, RAM |-> 8,  OS |-> <<"CentOS", "Linux">>],
      [CPUs |-> 4, RAM |-> 24, OS |-> <<"Ubuntu", "Linux">>],
      [CPUs |-> 2, RAM |-> 8,  OS |-> <<>>],
      [CPUs |-> 2, OS |-> <<"Ubuntu", "Linux">>] }

VMNames == <<"vm1", "vm2", "vm3", "vm4">>

Fleets ==
    UNION {{[i \in 1..n |-> [VM |-> VMNames[i]] @@ f[i]]
              : f \in [1..n -> HostKinds]} : n \in 1..MaxHosts}

\* The disk rows of the run: one for vm1, two for vm2, none for the others.
RunDisks ==
    << [VM |-> "vm1", Capacity |-> <<"1", ",", "0", "2", "4">>],
       [VM |-> "vm2", Capacity |-> <<"5", "0", "0">>],
       [VM |-> "vm2", Capacity |-> <<"2", "0", "0">>] >>
\* What the price source holds for a GB-month of storage, in cents.
RunUnitPrice == 10

\* What the price source holds for (offering, OS category, pricing model), in
\* cents: the answer of every query that does not fail.
price_source(instance, category, pricing_model) ==
    LET quote(u) == [kind |-> "price", usd |-> u]
        nodata == [kind |-> "nodata", usd |-> 0]
    IN  CASE instance = "a" /\ category = "Linux/UNIX" ->
                 (CASE pricing_model = "onDemand" -> quote(50)
                    [] pricing_model = "1-year Reserved" -> nodata
                    [] OTHER -> quote(250))
          [] instance = "b" /\ category = "Windows" ->
                 (CASE pricing_model = "onDemand" -> quote(120)
                    [] pricing_model = "1-year Reserved" -> nodata
                    [] OTHER -> quote(150))
          [] instance = "c" /\ category = "Windows" ->
                 (CASE pricing_model = "onDemand" -> quote(150)
                    [] pricing_model = "1-year Reserved" -> nodata
                    [] OTHER -> quote(120))
          [] OTHER -> nodata

\* A query may also fail: with a botocore ClientError or with another error.
QueryAnswers(key) ==
    {price_source(key[1], os_type(key[2]), key[3])}
        \cup (IF faults.clienterror + faults.transport < MaxFaults
              THEN {[kind |-> k, usd |-> 0] : k \in {"clienterror", "transport"}}
              ELSE {})

\* functools.lru_cache(maxsize=None) around get_price.
Miss == [hit |-> FALSE, val |-> 0]

\* Mutant: the cache is never hit.
cache_get_never(c, key) == Miss

\* Mutant: the pricing model is no part of the key.
cache_get_any_model(c, key) ==
    IF \E e \in c : e[1][1] = key[1] /\ e[1][2] = key[2]
    THEN [hit |-> TRUE,
          val |-> (CHOOSE e \in c : e[1][1] = key[1] /\ e[1][2] = key[2])[2]]
    ELSE Miss

\* functools.lru_cache(maxsize=None): the lookup and the store.
cache_get(c, key) ==
    IF \E e \in c : e[1] = key
    THEN [hit |-> TRUE, val |-> (CHOOSE e \in c : e[1] = key)[2]]
    ELSE Miss

cache_put(c, key, v) == {e \in c : e[1] # key} \cup {<<key, v>>}

\* The locals of one process_host call; seen keeps what get_price returned to
\* the call, in the order of its calls.
EmptyCounter == [t \in SeqToSet(TypeNames) |-> 0]
NoFaults == [clienterror |-> 0, transport |-> 0]
NewTask ==
    [pc |-> "pending", instances |-> <<>>, pm |-> 0, idx |-> 0,
     st |-> [prices |-> <<>>, invalid |-> <<>>, count |-> EmptyCounter],
     cost_details |-> <<>>, storage |-> NoStorage, exc |-> "none",
     seen |-> <<>>]

\* The arguments of the get_price call the task is at.
CurKey(h) ==
    <<task[h].instances[task[h].idx], hosts[h].OS, pricing_models[task[h].pm]>>

\* find_aws_instance after get_price returned price for the current candidate:
\* lines 163-175 for it, then on to the next candidate, the next pricing model
\* (lines 210-213) or the end of the pricing loop.
AfterPrice(t, price) ==
    LET u == [t EXCEPT !.st = tally_price(@, t.instances[t.idx], price),
                       !.seen = Append(@, price)]
    IN  IF u.idx < Len(u.instances) THEN [u EXCEPT !.idx = @ + 1, !.pc = "lookup"]
        ELSE LET d == Append(u.cost_details, select_least(u.st.prices))
             IN  IF u.pm < Len(pricing_models)
                 THEN [u EXCEPT !.cost_details = d, !.pm = @ + 1, !.idx = 1,
                                !.st.prices = <<>>, !.st.invalid = <<>>,
                                !.pc = "lookup"]
                 ELSE [u EXCEPT !.cost_details = d, !.pc = "storage"]

Running == {h \in 1..Len(hosts) :
               task[h].pc \in {"lookup", "query", "storage", "storage_query", "hung"}}

\* get_correct_instance_size over the catalog of the run, for the requirements
\* of its machines: computed once.
RunRequests ==
    {<<k.CPUs, k.RAM>> : k \in {k \in HostKinds : {"CPUs", "RAM"} \subseteq DOMAIN k}}
RunSizes ==
    [q \in RunRequests |-> get_correct_instance_size(q[1], q[2], RunCatalog)]

\* A free worker takes the next submitted call: find_aws_instance up to its
\* first get_price call.
TaskStart(h) ==
    /\ mainpc = "collecting"
    /\ task[h].pc = "pending"
    /\ \A g \in 1..(h - 1) : task[g].pc # "pending"
    /\ Cardinality(Running) < threads
    /\ LET sized == IF types = RunCatalog
                    THEN RunSizes[<<hosts[h].CPUs, hosts[h].RAM>>]
                    ELSE get_correct_instance_size(hosts[h].CPUs, hosts[h].RAM, types)
       IN  task' = [task EXCEPT ![h] =
              IF ~ {"CPUs", "RAM"} \subseteq DOMAIN hosts[h]
              THEN [@ EXCEPT !.pc = "returned_none"]
              ELSE IF sized.status = "raised"
              THEN [@ EXCEPT !.pc = "raised", !.exc = sized.exc]
              ELSE IF hosts[h].OS = <<>>
                   THEN [@ EXCEPT !.instances = sized.found,
                                  !.pm = Len(pricing_models),
                                  !.cost_details = <<NoneResult, NoneResult, NoneResult>>,
                                  !.pc = "storage"]
                   ELSE [@ EXCEPT !.instances = sized.found, !.pm = 1, !.idx = 1,
                                  !.pc = "lookup"]]
    /\ UNCHANGED <<hosts, main_disks, report_rows, threads, cache, storage_cache, faults, consumed, processed_host_records,
                   processed_count, mainpc, main_invalid_instance_types_count, rvars, pvars, xvars>>

\* get_price is entered: the lru_cache lookup.
TaskLookup(h) ==
    /\ task[h].pc = "lookup"
    /\ LET got == cache_get(cache, CurKey(h))
       IN  task' = [task EXCEPT ![h] =
              IF got.hit
              THEN AfterPrice(@, got.val)
              ELSE [@ EXCEPT !.pc = "query"]]
    /\ UNCHANGED <<hosts, main_disks, report_rows, threads, cache, storage_cache, faults, consumed,
                   processed_host_records, processed_count, mainpc, main_invalid_instance_types_count,
                   rvars, pvars, xvars>>

\* The price source answers: get_price returns and the value is cached, or the
\* exception leaves get_price, get_least_expensive_option and find_aws_instance.
TaskQuery(h) ==
    /\ task[h].pc = "query"
    /\ \E answer \in QueryAnswers(CurKey(h)) :
         LET got == get_price_answer(answer)
         IN  /\ faults' = IF answer.kind \in {"clienterror", "transport"}
                          THEN [faults EXCEPT ![answer.kind] = @ + 1] ELSE faults
             /\ IF got.ok
                THEN /\ cache' = cache_put(cache, CurKey(h), got.val)
                     /\ task' = [task EXCEPT ![h] = AfterPrice(@, got.val)]
                ELSE /\ cache' = cache
                     /\ task' = [task EXCEPT ![h] = [@ EXCEPT !.pc = "raised",
                                                              !.exc = got.val]]
    /\ UNCHANGED <<hosts, main_disks, report_rows, threads, storage_cache, consumed, processed_host_records,
                   processed_count, mainpc, main_invalid_instance_types_count, rvars, pvars, xvars>>

\* get_three_year_storage_cost with price_per_gb_month at hand, and the rest of
\* find_aws_instance.
AfterStorage(t, vm, answer) ==
    {IF out.ok THEN [t EXCEPT !.storage = out.val, !.pc = "finished"]
               ELSE [t EXCEPT !.pc = "raised", !.exc = out.val]
        : out \in get_three_year_storage_cost(vm, main_disks, answer)}

\* Mutant: the storage figures are written into the machine's input record.
TaskStorage_in_place(h) ==
    /\ task[h].pc = "storage"
    /\ IF storage_cache >= 0
       THEN \E t \in AfterStorage(task[h], hosts[h].VM,
                                  [kind |-> "price", usd |-> storage_cache]) :
                /\ task' = [task EXCEPT ![h] = t]
                /\ hosts' = [hosts EXCEPT ![h] = t.storage @@ @]
       ELSE /\ task' = [task EXCEPT ![h].pc = "storage_query"]
            /\ hosts' = hosts
    /\ UNCHANGED <<main_disks, report_rows, threads, cache, storage_cache, faults, consumed,
                   processed_host_records, processed_count, mainpc, main_invalid_instance_types_count,
                   rvars, pvars, xvars>>

\* get_storage_cost is entered: the lru_cache lookup.
TaskStorage(h) ==
    /\ task[h].pc = "storage"
    /\ IF storage_cache >= 0
       THEN \E t \in AfterStorage(task[h], hosts[h].VM,
                                  [kind |-> "price", usd |-> storage_cache]) :
                task' = [task EXCEPT ![h] = t]
       ELSE task' = [task EXCEPT ![h].pc = "storage_query"]
    /\ UNCHANGED <<hosts, main_disks, report_rows, threads, cache, storage_cache, faults, consumed,
                   processed_host_records, processed_count, mainpc, main_invalid_instance_types_count,
                   rvars, pvars, xvars>>

\* The price source answers the storage query.
TaskStorageQuery(h) ==
    /\ task[h].pc = "storage_query"
    /\ \E answer \in {[kind |-> "price", usd |-> RunUnitPrice]}
                      \cup (IF faults.clienterror + faults.transport < MaxFaults
                            THEN {[kind |-> k, usd |-> 0] :
                                     k \in {"clienterror", "transport"}}
                            ELSE {}) :
         /\ faults' = IF answer.kind = "price" THEN faults
                      ELSE [faults EXCEPT ![answer.kind] = @ + 1]
         /\ storage_cache' = IF answer.kind = "price" THEN answer.usd
                             ELSE storage_cache
         /\ \E t \in AfterStorage(task[h], hosts[h].VM, answer) :
                task' = [task EXCEPT ![h] = t]
    /\ UNCHANGED <<hosts, main_disks, report_rows, threads, cache, consumed, processed_host_records,
                   processed_count, mainpc, main_invalid_instance_types_count, rvars, pvars, xvars>>

\* The record find_aws_instance returns.
RecordOf(h) == host_with_cost_details(hosts[h], task[h].cost_details, task[h].storage)

\* Mutant: the exception of a future leaves main().
Collect_abort(h) ==
    /\ mainpc = "collecting"
    /\ h \notin consumed
    /\ task[h].pc \in {"finished", "returned_none", "raised"}
    /\ consumed' = consumed \cup {h}
    /\ mainpc' = IF task[h].pc = "raised" THEN "aborted" ELSE mainpc
    /\ CASE task[h].pc = "finished" ->
              /\ processed_host_records' = Append(processed_host_records, RecordOf(h))
              /\ processed_count' = processed_count + 1
         [] task[h].pc = "returned_none" ->
              /\ processed_count' = processed_count + 1
              /\ UNCHANGED processed_host_records
         [] OTHER -> UNCHANGED <<processed_host_records, processed_count>>
    /\ UNCHANGED <<hosts, main_disks, report_rows, threads, task, cache, storage_cache, faults,
                   main_invalid_instance_types_count, rvars, pvars, xvars>>

\* Mutant: the futures are awaited in submission order.
Collect_in_order(h) ==
    /\ mainpc = "collecting"
    /\ h \notin consumed
    /\ 1..(h - 1) \subseteq consumed
    /\ task[h].pc \in {"finished", "returned_none", "raised"}
    /\ consumed' = consumed \cup {h}
    /\ CASE task[h].pc = "finished" ->
              /\ processed_host_records' = Append(processed_host_records, RecordOf(h))
              /\ processed_count' = processed_count + 1
         [] task[h].pc = "returned_none" ->
              /\ processed_count' = processed_count + 1
              /\ UNCHANGED processed_host_records
         [] OTHER -> UNCHANGED <<processed_host_records, processed_count>>
    /\ UNCHANGED <<hosts, main_disks, report_rows, threads, task, cache, storage_cache, faults, mainpc,
                   main_invalid_instance_types_count, rvars, pvars, xvars>>

\* One pass of the as_completed loop of main().
Collect(h) ==
    /\ mainpc = "collecting"
    /\ h \notin consumed
    /\ task[h].pc \in {"finished", "returned_none", "raised"}
    /\ consumed' = consumed \cup {h}
    /\ CASE task[h].pc = "finished" ->
              /\ processed_host_records' = Append(processed_host_records, RecordOf(h))
              /\ processed_count' = processed_count + 1
         [] task[h].pc = "returned_none" ->
              /\ processed_count' = processed_count + 1
              /\ UNCHANGED processed_host_records
         [] OTHER -> UNCHANGED <<processed_host_records, processed_count>>
    /\ UNCHANGED <<hosts, main_disks, report_rows, threads, task, cache, storage_cache, faults, mainpc,
                   main_invalid_instance_types_count, rvars, pvars, xvars>>

\* Mutant: the pool is left as soon as one future was collected.
MainDone_first_completed ==
    /\ mainpc = "collecting"
    /\ consumed # {}
    /\ mainpc' = "done"
    /\ UNCHANGED <<hosts, main_disks, report_rows, threads, task, cache, storage_cache, faults, consumed,
                   processed_host_records, processed_count, main_invalid_instance_types_count, rvars, pvars, xvars>>

\* as_completed is exhausted and the with block is left.
MainDone ==
    /\ mainpc = "collecting"
    /\ consumed = 1..Len(hosts)
    /\ mainpc' = "done"
    /\ UNCHANGED <<hosts, main_disks, report_rows, threads, task, cache, storage_cache, faults, consumed,
                   processed_host_records, processed_count, main_invalid_instance_types_count, rvars, pvars, xvars>>

RECURSIVE price_loop(_, _, _, _)
\* The for loop of get_least_expensive_option from candidate i on, the price
\* source giving answers[i] for candidate i.
price_loop(candidates, answers, i, st) ==
    IF i > Len(candidates) THEN Ok(st)
    ELSE LET got == get_price_answer(answers[i])
         IN  IF got.ok
             THEN price_loop(candidates, answers, i + 1,
                             tally_price(st, candidates[i], got.val))
             ELSE got

\* Mutant: no valid price is an error.
get_least_expensive_option_strict(candidates, os, answers, count) ==
    LET looped == price_loop(candidates, answers, 1,
                             [prices |-> <<>>, invalid |-> <<>>, count |-> count])
    IN  IF candidates = <<>> \/ os = <<>>
        THEN [ok |-> TRUE, result |-> NoneResult, count |-> count, exc |-> "none"]
        ELSE IF ~looped.ok \/ looped.val.prices = <<>>
             THEN [ok |-> FALSE, result |-> NoneResult, count |-> count,
                   exc |-> IF looped.ok THEN "ValueError" ELSE looped.val]
             ELSE [ok |-> TRUE, result |-> select_least(looped.val.prices),
                   count |-> looped.val.count, exc |-> "none"]

\* get_least_expensive_option(instances, os, pricing_model, count).
get_least_expensive_option(candidates, os, answers, count) ==
    LET looped == price_loop(candidates, answers, 1,
                             [prices |-> <<>>, invalid |-> <<>>, count |-> count])
    IN  IF candidates = <<>> \/ os = <<>>
        THEN [ok |-> TRUE, result |-> NoneResult, count |-> count, exc |-> "none"]
        ELSE IF ~looped.ok
             THEN [ok |-> FALSE, result |-> NoneResult, count |-> count,
                   exc |-> looped.val]
             ELSE [ok |-> TRUE, result |-> select_least(looped.val.prices),
                   count |-> looped.val.count, exc |-> "none"]

\* What get_price gives the main thread for a key: the cached value, or on a
\* miss what the price source answers.
cached_answers(key) ==
    LET got == cache_get(cache, key)
    IN  IF got.hit THEN {[kind |-> "price", usd |-> got.val]}
        ELSE QueryAnswers(key)

\* find_aws_instance(host, disks, types) in the main thread, on a record the
\* run produced: the outcomes it may have, None being Ok(NoRecord).
find_aws_instance(host) ==
    IF ~ {"CPUs", "RAM"} \subseteq DOMAIN host THEN {Ok(NoRecord)}
    ELSE LET sized == IF types = RunCatalog /\ <<host.CPUs, host.RAM>> \in RunRequests
                      THEN RunSizes[<<host.CPUs, host.RAM>>]
                      ELSE get_correct_instance_size(host.CPUs, host.RAM, types)
             n == Len(sized.found)
             key(m, i) == <<sized.found[i], host.OS, pricing_models[m]>>
             given(m) == UNION {cached_answers(key(m, i)) : i \in 1..n}
             least(m) ==
                 {get_least_expensive_option(sized.found, host.OS, a, EmptyCounter) :
                     a \in {a \in [1..n -> given(m)] :
                               \A i \in 1..n : a[i] \in cached_answers(key(m, i))}}
             stored == IF storage_cache >= 0
                       THEN {[kind |-> "price", usd |-> storage_cache]}
                       ELSE {[kind |-> "price", usd |-> RunUnitPrice]}
         IN  IF sized.status = "raised" THEN {Raise(sized.exc)}
             ELSE UNION {
                   IF \E m \in 1..3 : ~d[m].ok
                   THEN {Raise("BotoCoreError")}
                   ELSE {IF o.ok
                         THEN Ok(host_with_cost_details(
                                     host, <<d[1].result, d[2].result, d[3].result>>,
                                     o.val))
                         ELSE o
                            : o \in UNION {get_three_year_storage_cost(
                                               host.VM, main_disks, answer) :
                                               answer \in stored}}
                      : d \in least(1) \X least(2) \X least(3)}

\* write_report_file_to_csv (report_generator.py 22-55) as main() calls it
\* (main.py 198-210): find_aws_instance again on every collected record, one
\* row per result that is not None; an exception, the failed assert on an
\* empty list of records included, makes main() return 1.  The row holds
\* fields of the result; the model keeps the result.
WriteReport ==
    /\ mainpc = "done"
    /\ IF processed_host_records = <<>>
       THEN /\ mainpc' = "report_failed"
            /\ report_rows' = <<>>
       ELSE \E outcomes \in {[i \in 1..Len(processed_host_records) |->
                                  find_aws_instance(processed_host_records[i])]} :
            \E instance \in [1..Len(processed_host_records) ->
                                UNION {outcomes[i] : i \in 1..Len(processed_host_records)}] :
              /\ \A i \in 1..Len(processed_host_records) : instance[i] \in outcomes[i]
              /\ IF \A i \in 1..Len(processed_host_records) : instance[i].ok
                 THEN /\ report_rows' =
                            SelectSeq([i \in 1..Len(processed_host_records) |-> instance[i].val],
                                      LAMBDA row : row # NoRecord)
                      /\ mainpc' = "reported"
                 ELSE /\ report_rows' = <<>>
                      /\ mainpc' = "report_failed"
    /\ UNCHANGED <<hosts, main_disks, threads, task, cache, storage_cache, faults, consumed,
                   processed_host_records, processed_count, main_invalid_instance_types_count, rvars, pvars, xvars>>

Init ==
    /\ OthersIdle
    /\ PriceIdle
    /\ types = RunCatalog
    /\ cpu = 0
    /\ ram = 0
    /\ min_cpu = 0
    /\ min_ram = 0
    /\ found = <<>>
    /\ rpc = "idle"
    /\ iters = 0
    /\ callNo = 0
    /\ prev = NoCall
    /\ hosts \in Fleets
    /\ main_disks = RunDisks
    /\ report_rows = <<>>
    /\ threads \in 1..MaxThreads
    /\ task = [h \in 1..Len(hosts) |-> NewTask]
    /\ cache = {}
    /\ storage_cache = -1
    /\ faults = NoFaults
    /\ consumed = {}
    /\ processed_host_records = <<>>
    /\ processed_count = 0
    /\ main_invalid_instance_types_count = EmptyCounter
    /\ mainpc = "collecting"

Next ==
    \/ \E h \in 1..Len(hosts) : TaskStart(h)
    \/ \E h \in 1..Len(hosts) : TaskLookup(h)
    \/ \E h \in 1..Len(hosts) : TaskQuery(h)
    \/ \E h \in 1..Len(hosts) : TaskStorage(h)
    \/ \E h \in 1..Len(hosts) : TaskStorageQuery(h)
    \/ \E h \in 1..Len(hosts) : Collect(h)
    \/ MainDone
    \/ WriteReport

Spec == Init /\ [][Next]_vars

(***************************************************************************)
(* SpecFair: the same run under the scheduling of the thread pool, with a  *)
(* query of the price source that may never return.  get_price sets no     *)
(* timeout (aws_pricing.py 75-119), so the call of one machine may stay in *)
(* the price source for ever; at most one does.  Every worker thread that  *)
(* can take a step takes one in the end, a free worker takes the next      *)
(* submitted call, and the main thread takes every completed future        *)
(* (main.py 157-175): as long as a thread of the run can take a step, one  *)
(* of them does.                                                           *)
(***************************************************************************)
TaskHang(h) ==
    /\ task[h].pc = "query"
    /\ \A g \in 1..Len(hosts) : task[g].pc # "hung"
    /\ task' = [task EXCEPT ![h].pc = "hung"]
    /\ UNCHANGED <<hosts, main_disks, report_rows, threads, cache, storage_cache, faults, consumed,
                   processed_host_records, processed_count, mainpc, main_invalid_instance_types_count,
                   rvars, pvars, xvars>>

NextFair ==
    \/ Next
    \/ \E h \in 1..Len(hosts) : TaskHang(h)

Fairness == WF_vars(Next)

\* The runs over machines of one operating system: a machine that is priced,
\* one the resolver fails on and one without a RAM field.
InitFair ==
    /\ Init
    /\ \A h \in 1..Len(hosts) : hosts[h].OS = <<"Ubuntu", "Linux">>

SpecFair == InitFair /\ [][NextFair]_vars /\ Fairness

(***************************************************************************)
(* Price-source claims (Spec)                                              *)
(***************************************************************************)
Tasks == 1..Len(hosts)
Cached(key) == \E e \in cache : e[1] = key
CachedValue(key) == (CHOOSE e \in cache : e[1] = key)[2]
SourceOf(key) == price_source(key[1], os_type(key[2]), key[3])
\* The step in which the get_price call of task h ends its query.
QueryEnds(h) == task[h].pc = "query" /\ task'[h] # task[h]
Collected(h) == \E i \in 1..Len(processed_host_records) :
                    processed_host_records[i].VM = hosts[h].VM

\* C8, the step of a query's end: on no data and on a ClientError get_price
\* returns 0, which is cached, and the task goes on; the task raises only on
\* another failure, and then nothing but that task changes.
C8_QueryStep ==
    \A h \in Tasks :
        QueryEnds(h) =>
            /\ (faults' = faults /\ SourceOf(CurKey(h)).kind = "nodata") =>
                  (task'[h].pc # "raised" /\ <<CurKey(h), 0>> \in cache')
            /\ faults'.clienterror # faults.clienterror =>
                  (task'[h].pc # "raised" /\ <<CurKey(h), 0>> \in cache')
            /\ task'[h].pc = "raised" =>
                  /\ faults'.transport = faults.transport + 1
                  /\ task'[h].exc = "BotoCoreError"
                  /\ \A g \in Tasks \ {h} : task'[g] = task[g]
                  /\ cache' = cache
                  /\ mainpc' = mainpc
                  /\ processed_host_records' = processed_host_records

\* C8, the run: it ends with the record of every machine whose own call
\* returned, whatever was raised for the others, which leave no record.
C8_RunGoesOn ==
    /\ \A h \in Tasks : Collected(h) => task[h].pc = "finished"
    /\ mainpc = "done" => \A h \in Tasks : task[h].pc = "finished" => Collected(h)

\* C8: get_price returns 0 when the source has no data or answers with a client
\* error; only other failures propagate, and one fails only the machine whose
\* lookup raised it, not the run.
C8_NoDataIsUnavailable == [][C8_QueryStep]_vars /\ []C8_RunGoesOn

\* C8 witness: the run is over; one machine's lookup raised on a failed query,
\* another machine's record was collected with a no-data price cached as 0.
C8_Witness ==
    /\ mainpc = "done"
    /\ \E h \in Tasks : task[h].pc = "raised" /\ task[h].exc = "BotoCoreError"
    /\ \E h \in Tasks : Collected(h)
    /\ \E e \in cache : e[2] = 0 /\ SourceOf(e[1]).kind = "nodata"

FamilyKey(key) == <<key[1], os_type(key[2]), key[3]>>

\* C9 (as claimed): per (offering id, OS family, commitment model) key, a call
\* queries the source only while no value is cached for the key, and the value
\* a call returns is the value cached for the key.
C9_OncePerFamilyKey ==
    [][\A h \in Tasks :
          /\ (task[h].pc = "lookup" /\ task'[h].pc = "query") =>
                ~ \E e \in cache : FamilyKey(e[1]) = FamilyKey(CurKey(h))
          /\ (QueryEnds(h) /\ task'[h].pc # "raised") =>
                \A e \in cache, d \in cache' :
                    (FamilyKey(e[1]) = FamilyKey(CurKey(h)) /\ d[1] = CurKey(h))
                        => d[2] = e[2]]_vars

\* C9 (amended): a call whose (offering id, OS string, commitment model)
\* arguments are cached returns the cached value without a query of the
\* source; an entry is never evicted; a call that raises caches nothing.
C9_CachedNeverQueried ==
    [][/\ \A h \in Tasks :
             /\ (task[h].pc = "lookup" /\ Cached(CurKey(h))) =>
                   \/ task'[h] = task[h]
                   \/ /\ task'[h] = AfterPrice(task[h], CachedValue(CurKey(h)))
                      /\ faults' = faults
                      /\ cache' = cache
             /\ (task[h].pc = "lookup" /\ task'[h].pc = "query") => ~Cached(CurKey(h))
             /\ (QueryEnds(h) /\ task'[h].pc = "raised") => cache' = cache
       /\ \A e \in cache : \E d \in cache' : d[1] = e[1]]_vars

\* C9 witness: with one worker, two machines with the same OS string and the
\* same offering were priced one after the other: the second found every key cached.
C9_Witness ==
    /\ threads = 1
    /\ \E h \in Tasks, g \in Tasks :
          /\ h # g
          /\ task[h].pc = "finished"
          /\ task[g].pc = "finished"
          /\ hosts[h].OS = hosts[g].OS
          /\ hosts[h].OS # <<>>
          /\ task[h].instances = task[g].instances

\* C10 (as claimed): a failed query makes its metric unavailable only for the
\* machine whose lookup hit it: no later lookup is handed "unavailable" (0) for
\* a metric the price source has a price for.
C10_ErrorNotInherited ==
    [][\A h \in Tasks :
          (task[h].pc = "lookup" /\ Cached(CurKey(h)) /\ task'[h] # task[h]) =>
              (CachedValue(CurKey(h)) = 0 => SourceOf(CurKey(h)).usd = 0)]_vars

(***************************************************************************)
(* The OS string of a machine: find_aws_instance hands host.get('OS') to   *)
(* get_least_expensive_option, which hands it to get_price (SpecOs)        *)
(***************************************************************************)
RECURSIVE SeqsUpTo(_, _)
\* The sequences over S of length at most n.
SeqsUpTo(S, n) ==
    IF n = 0 THEN {<<>>}
    ELSE LET shorter == SeqsUpTo(S, n - 1)
         IN  shorter \cup {Append(q, w) : q \in shorter, w \in S}

OsTexts == SeqsUpTo(OsWords, MaxOsLen)

\* A machine's OS string reaches get_least_expensive_option.
OsGiven(os) ==
    /\ opc = "idle"
    /\ os_text' = os
    /\ opc' = "given"
    /\ UNCHANGED <<os_category, rvars, pvars, mvars, cvars, lvars>>

\* get_least_expensive_option returns at once on a falsy os; otherwise it calls
\* get_price, which maps the string to a category.
OsPrice ==
    /\ opc = "given"
    /\ IF os_text = <<>>
       THEN /\ opc' = "unpriced"
            /\ UNCHANGED os_category
       ELSE /\ opc' = "priced"
            /\ os_category' = os_type(os_text)
    /\ UNCHANGED <<os_text, rvars, pvars, mvars, cvars, lvars>>

\* The next machine.
OsNext ==
    /\ opc \in {"priced", "unpriced"}
    /\ opc' = "idle"
    /\ os_text' = <<>>
    /\ os_category' = "none"
    /\ UNCHANGED <<rvars, pvars, mvars, cvars, lvars>>

InitOs ==
    /\ OsIdle
    /\ MachineIdle
    /\ LoadIdle
    /\ ResolveIdle
    /\ PriceIdle
    /\ RunIdle

NextOs ==
    \/ \E os \in OsTexts : OsGiven(os)
    \/ OsPrice
    \/ OsNext

SpecOs == InitOs /\ [][NextOs]_vars

\* The category the OS mapping names for a string: the first keyword, in the
\* order CentOS, Red Hat, Windows, SUSE, that the string contains.
FirstKeywordCategory(os) ==
    LET has(k) == \E i \in 1..Len(os) :
                      /\ i + Len(k) - 1 <= Len(os)
                      /\ \A j \in 1..Len(k) : os[i + j - 1] = k[j]
    IN  IF has(<<"CentOS">>) THEN "Linux/UNIX"
        ELSE IF has(<<"Red", "Hat">>) THEN "Red Hat Enterprise Linux"
        ELSE IF has(<<"Windows">>) THEN "Windows"
        ELSE IF has(<<"SUSE">>) THEN "SUSE Linux"
        ELSE "Linux/UNIX"

\* C11 (as claimed): every OS string given for a machine is priced, under the
\* category of the first keyword it contains, or under Linux/UNIX if it
\* contains none.
C11_EveryStringPriced ==
    opc \notin {"idle", "given"} =>
        (opc = "priced" /\ os_category = FirstKeywordCategory(os_text))

\* C11 (amended): every OS string that is not empty is priced under that one
\* category; for the empty string no price is looked up under any category.
C11_NonEmptyStringPriced ==
    opc \notin {"idle", "given"} =>
        IF os_text # <<>>
        THEN opc = "priced" /\ os_category = FirstKeywordCategory(os_text)
        ELSE opc = "unpriced" /\ os_category = "none"

\* C11 witness: a string with a later keyword before an earlier one was priced
\* under the earlier one's category.
C11_Witness ==
    /\ opc = "priced"
    /\ os_text = <<"Windows", "Red", "Hat">>
    /\ os_category = "Red Hat Enterprise Linux"

(***************************************************************************)
(* One machine: find_aws_instance from call to return (SpecMachine)        *)
(***************************************************************************)
\* Disk records per call, at most.
MaxDisks == 2
\* Capacity cells: "1,024", "500", "250" and ",", which is no number.
CapTexts == { <<"1", ",", "0", "2", "4">>, <<"5", "0", "0">>, <<"2", "5", "0">>,
              <<",">> }
DiskRecords == [VM : {"vm1", "vm2"}, Capacity : CapTexts]
DiskLists == SeqsUpTo(DiskRecords, MaxDisks)
\* Storage unit prices per GB-month in cents (0.08 and 0.10 USD).
UnitPrices == {8, 10}
\* Host records: one candidate, two candidates, none (the resolver raises), an
\* empty OS cell, and a record without its RAM field.
MachineHosts ==
    { [VM |-> "vm1", CPUs |-> 2, RAM |-> 8,  OS |-> <<"Ubuntu", "Linux">>],
      [VM |-> "vm1", CPUs |-> 3, RAM |-> 10, OS |-> <<"Microsoft", "Windows">>],
      [VM |-> "vm1", CPUs |-> 4, RAM |-> 24, OS |-> <<"Ubuntu", "Linux">>],
      [VM |-> "vm1", CPUs |-> 2, RAM |-> 8,  OS |-> <<>>],
      [VM |-> "vm1", CPUs |-> 2, OS |-> <<"Ubuntu", "Linux">>] }
\* Answers of the price source to an instance price query (2.50 USD).
MachineAnswers ==
    {[kind |-> "price", usd |-> 250]}
        \cup {[kind |-> k, usd |-> 0] : k \in {"nodata", "clienterror", "transport"}}

\* Lines 190-203: the checks of the record and the resolver.
MachineSize ==
    /\ mpc = "called"
    /\ IF ~ {"CPUs", "RAM"} \subseteq DOMAIN m_host
       THEN /\ mpc' = "none"
            /\ UNCHANGED <<m_instances, m_exc>>
       ELSE LET sized == get_correct_instance_size(m_host.CPUs, m_host.RAM,
                                                   RunCatalog)
            IN  IF sized.status = "raised"
                THEN /\ mpc' = "raised"
                     /\ m_exc' = sized.exc
                     /\ UNCHANGED m_instances
                ELSE IF sized.found = <<>>
                     THEN /\ mpc' = "none"
                          /\ UNCHANGED <<m_instances, m_exc>>
                     ELSE /\ mpc' = "pricing"
                          /\ m_instances' = sized.found
                          /\ UNCHANGED m_exc
    /\ UNCHANGED <<m_host, m_disks, m_cost_details, m_count, m_unit_price,
                   m_storage, m_record, rvars, pvars, mvars, ovars, lvars>>

\* Lines 210-213: one pass of the loop over pricing_models.
MachinePrice ==
    /\ mpc = "pricing"
    /\ \E answers \in [1..Len(m_instances) -> MachineAnswers] :
         LET out == get_least_expensive_option(m_instances, m_host.OS, answers,
                                               m_count)
         IN  IF out.ok
             THEN /\ m_cost_details' = Append(m_cost_details, out.result)
                  /\ m_count' = out.count
                  /\ mpc' = IF Len(m_cost_details) + 1 < Len(pricing_models)
                            THEN "pricing" ELSE "storage"
                  /\ UNCHANGED m_exc
             ELSE /\ mpc' = "raised"
                  /\ m_exc' = out.exc
                  /\ UNCHANGED <<m_cost_details, m_count>>
    /\ UNCHANGED <<m_host, m_disks, m_instances, m_unit_price, m_storage,
                   m_record, rvars, pvars, mvars, ovars, lvars>>

\* Line 216: get_three_year_storage_cost(host, disks).
MachineStorage ==
    /\ mpc = "storage"
    /\ \E answer \in StorageAnswers(UnitPrices) :
         \E out \in get_three_year_storage_cost(m_host.VM, m_disks, answer) :
            /\ m_unit_price' = IF m_disks # <<>> /\ get_storage_cost(answer).ok
                               THEN get_storage_cost(answer).val ELSE m_unit_price
            /\ IF out.ok
               THEN /\ m_storage' = out.val
                    /\ mpc' = "total"
                    /\ UNCHANGED m_exc
               ELSE /\ mpc' = "raised"
                    /\ m_exc' = out.val
                    /\ UNCHANGED m_storage
    /\ UNCHANGED <<m_host, m_disks, m_instances, m_cost_details, m_count,
                   m_record, rvars, pvars, mvars, ovars, lvars>>

MachineTotal ==
    /\ mpc = "total"
    /\ m_record' = host_with_cost_details(m_host, m_cost_details, m_storage)
    /\ mpc' = "returned"
    /\ UNCHANGED <<m_host, m_disks, m_instances, m_cost_details, m_count,
                   m_unit_price, m_storage, m_exc, rvars, pvars, mvars, ovars, lvars>>

InitMachine ==
    /\ OsIdle
    /\ LoadIdle
    /\ ResolveIdle
    /\ PriceIdle
    /\ RunIdle
    /\ m_host \in MachineHosts
    /\ m_disks \in DiskLists
    /\ m_instances = <<>>
    /\ m_cost_details = <<>>
    /\ m_count = EmptyCounter
    /\ m_unit_price = -1
    /\ m_storage = NoStorage
    /\ m_record = NoRecord
    /\ m_exc = "none"
    /\ mpc = "called"

NextMachine ==
    \/ MachineSize
    \/ MachinePrice
    \/ MachineStorage
    \/ MachineTotal

SpecMachine == InitMachine /\ [][NextMachine]_vars

(***************************************************************************)
(* Cost claims (SpecMachine)                                               *)
(***************************************************************************)
StorageDone == mpc \in {"total", "returned"}
Abs(x) == IF x >= 0 THEN x ELSE 0 - x

\* C12: the three-year storage cost is 36 times a monthly amount of whole cents
\* that is unit price x storage GB rounded to the nearest cent.
C12_StorageCostIs36Monthly ==
    StorageDone =>
        \E monthly \in 0..(m_unit_price * m_storage.Storage + 1) :
            /\ 2 * Abs(1000 * monthly - m_unit_price * m_storage.Storage) <= 1000
            /\ m_storage.StorageCost = 36 * monthly

\* C12 witness: 1.024 GB at 0.10 USD is 0.1024 USD a month, rounded to 0.10:
\* the record reports 3.60, not the 3.69 of the unrounded amount.
C12_Witness ==
    /\ mpc = "returned"
    /\ m_unit_price = 10
    /\ m_record.Storage = 1024
    /\ m_record.StorageCost = 360

\* C13: Total of a returned record is its instance cost (whole dollars, 0 if
\* null) plus its storage cost, to the cent.
C13_TotalIsInstancePlusStorage ==
    mpc = "returned" =>
        /\ m_record.none = m_cost_details[3].none
        /\ m_record.Cost = m_cost_details[3].Cost
        /\ m_record.StorageCost = m_storage.StorageCost
        /\ m_record.StorageCost >= 0
        /\ m_record.Total = (IF m_record.none THEN 0 ELSE 100 * m_record.Cost)
                                + m_record.StorageCost

\* C13 witness: a record with an instance cost and a storage cost.
C13_Witness ==
    /\ mpc = "returned"
    /\ ~m_record.none
    /\ m_record.Cost = 2
    /\ m_record.StorageCost = 360
    /\ m_record.Total = 560

RECURSIVE Pow10(_)
Pow10(n) == IF n = 0 THEN 1 ELSE 10 * Pow10(n - 1)

RECURSIVE SumOf(_, _)
\* The sum of f over the set S.
SumOf(f, S) ==
    IF S = {} THEN 0
    ELSE LET x == CHOOSE x \in S : TRUE IN f[x] + SumOf(f, S \ {x})

\* The number a capacity cell writes, thousands separators aside.
CapacityValue(cap) ==
    LET places == {i \in 1..Len(cap) : cap[i] # ","}
        weight == [i \in places |->
                      DigitVal(cap[i]) * Pow10(Cardinality({j \in places : j > i}))]
    IN  SumOf(weight, places)

OwnDisks == {i \in 1..Len(m_disks) : m_disks[i].VM = m_host.VM}

\* C14: the storage footprint of a machine is the sum of the capacities of all
\* of its disk records.
C14_FootprintIsSum ==
    StorageDone =>
        m_storage.Storage =
            SumOf([i \in OwnDisks |-> CapacityValue(m_disks[i].Capacity)], OwnDisks)

\* C15: with one disk record of the machine, the footprint in thousandths of a
\* GB is the number the capacity cell writes without its separators, whatever
\* the records of other machines.
C15_CapacityNormalized ==
    (StorageDone /\ Cardinality(OwnDisks) = 1) =>
        \A i \in OwnDisks : m_storage.Storage = CapacityValue(m_disks[i].Capacity)

\* C15 witness: "1,024" for the machine, followed by a record of another
\* machine, gave 1.024 GB.
C15_Witness ==
    /\ mpc = "returned"
    /\ m_disks = <<[VM |-> "vm1", Capacity |-> <<"1", ",", "0", "2", "4">>],
                   [VM |-> "vm2", Capacity |-> <<"5", "0", "0">>]>>
    /\ m_record.Storage = 1024

AllUnavailable ==
    /\ Len(m_cost_details) = Len(pricing_models)
    /\ \A i \in 1..Len(m_cost_details) : m_cost_details[i].none

\* C16: unavailable prices never end the call, only an exception of the price
\* source does; and the record returned when all three models are unavailable
\* has no instance type and costs, the machine's identifier, its storage
\* footprint and storage cost, and the storage cost as Total.
C16_RecordWithoutPrices ==
    /\ (mpc = "raised" /\ m_instances # <<>> /\ Len(m_cost_details) < Len(pricing_models))
          => m_exc = "BotoCoreError"
    /\ (mpc = "returned" /\ AllUnavailable) =>
          /\ m_record.none
          /\ m_record.Type = "None"
          /\ \A i \in 1..3 : m_record.CostDetails[i] = NoneResult
          /\ m_record.VM = m_host.VM
          /\ m_record.Storage = m_storage.Storage
          /\ m_record.StorageCost = m_storage.StorageCost
          /\ m_record.Total = m_record.StorageCost

\* C16 witness: two candidates, each unavailable under each model, and a
\* record with a storage cost.
C16_Witness ==
    /\ mpc = "returned"
    /\ AllUnavailable
    /\ Len(m_instances) = 2
    /\ \A i \in 1..2 : m_count[m_instances[i]] = 3
    /\ m_record.StorageCost > 0
    /\ m_record.Total = m_record.StorageCost

(***************************************************************************)
(* Batch claims (Spec)                                                     *)
(***************************************************************************)
RecordsOf(h) == {i \in 1..Len(processed_host_records) :
                    processed_host_records[i].VM = hosts[h].VM}
Ended(h) == task[h].pc \in {"finished", "returned_none", "raised"}

\* C17: main never leaves the collection loop but at its end, and until then a
\* future is left to run, to start or to collect; a machine has a record only
\* if its own call returned one, and then at most one; and when the run is over
\* every machine whose call returned a record has exactly one, whatever
\* happened to the others, which have none.
C17_FailureIsolation ==
    /\ mainpc \in {"collecting", "done", "reported", "report_failed"}
    /\ mainpc = "collecting" =>
          \/ consumed = Tasks
          \/ \E h \in Tasks \ consumed : Ended(h) \/ h \in Running
          \/ \E h \in Tasks : task[h].pc = "pending" /\ Cardinality(Running) < threads
    /\ \A h \in Tasks :
          /\ Cardinality(RecordsOf(h)) <= 1
          /\ \A i \in RecordsOf(h) :
                /\ task[h].pc = "finished"
                /\ processed_host_records[i] = RecordOf(h)
    /\ mainpc # "collecting" =>
          \A h \in Tasks :
              /\ Ended(h)
              /\ task[h].pc = "finished" => Cardinality(RecordsOf(h)) = 1
              /\ task[h].pc # "finished" => RecordsOf(h) = {}

\* C17 witness: the run is over; the resolver failed for one machine, and
\* another machine has its record.
C17_Witness ==
    /\ mainpc = "done"
    /\ \E h \in Tasks, g \in Tasks :
          /\ task[h].pc = "raised"
          /\ task[h].exc = "AssertionError"
          /\ task[g].pc = "finished"
          /\ Cardinality(RecordsOf(g)) = 1

\* The unavailable price evaluations of the run, per offering: each is counted
\* by the worker that made it.
Evaluated(t) == SumOf([h \in Tasks |-> task[h].st.count[t]], Tasks)

\* C18: the tally main reports at the end of the run counts, per offering, the
\* price evaluations of the run that were unavailable.
C18_TallyReported ==
    mainpc = "done" =>
        \A t \in SeqToSet(TypeNames) :
            main_invalid_instance_types_count[t] = Evaluated(t)

NoneCount(h) ==
    Cardinality({i \in 1..Len(task[h].cost_details) : task[h].cost_details[i].none})

\* C19, the steps: a step that changes the tally of a call is a step of that
\* call's own worker inside get_price, changes no other call, and adds one to
\* one offering, the candidate being priced.
C19_OwnWorkerOnly ==
    \A h \in Tasks :
        task'[h].st.count # task[h].st.count =>
            /\ task[h].pc \in {"lookup", "query"}
            /\ \A g \in Tasks \ {h} : task'[g] = task[g]
            /\ task'[h].st.count =
                   [task[h].st.count EXCEPT ![task[h].instances[task[h].idx]] = @ + 1]

\* C19, the counts: with one candidate, the tally of a call holds one for each
\* pricing model it found unavailable, and nothing else.
C19_NoIncrementLost ==
    \A h \in Tasks :
        (Len(task[h].instances) = 1 /\ hosts[h].OS # <<>>) =>
            \A t \in SeqToSet(TypeNames) :
                task[h].st.count[t] =
                    IF t = task[h].instances[1] THEN NoneCount(h) ELSE 0

\* C19: no tally object is written by more than one worker and no increment is
\* lost, under every interleaving.
C19_TallyConcurrencySafe == [][C19_OwnWorkerOnly]_vars /\ []C19_NoIncrementLost

\* C19 witness: two workers at once, each having tallied the same offering.
C19_Witness ==
    /\ threads >= 2
    /\ \E h \in Tasks, g \in Tasks :
          /\ h # g
          /\ task[h].pc \in {"lookup", "query"}
          /\ task[g].pc \in {"lookup", "query"}
          /\ task[h].st.count["a"] >= 1
          /\ task[g].st.count["a"] >= 2

\* What find_aws_instance gives for a machine when every query is answered by
\* what the price source holds: no record, or the record.
SourceRecord(host) ==
    IF ~ {"CPUs", "RAM"} \subseteq DOMAIN host THEN {}
    ELSE LET sized == get_correct_instance_size(host.CPUs, host.RAM, RunCatalog)
             least(m) ==
                 get_least_expensive_option(
                     sized.found, host.OS,
                     [i \in 1..Len(sized.found) |->
                         price_source(sized.found[i], os_type(host.OS),
                                      pricing_models[m])],
                     EmptyCounter).result
         IN  IF sized.status = "raised" THEN {}
             ELSE {host_with_cost_details(host, <<least(1), least(2), least(3)>>, o.val) :
                      o \in get_three_year_storage_cost(
                                host.VM, RunDisks,
                                [kind |-> "price", usd |-> RunUnitPrice])}

\* C20: when no query of the run failed, the records collected are those the
\* machines give one by one, each once, for every worker count and every
\* completion order.
C20_SameRecordsEveryInterleaving ==
    (mainpc = "done" /\ faults = NoFaults) =>
        /\ SeqToSet(processed_host_records)
               = UNION {SourceRecord(hosts[h]) : h \in Tasks}
        /\ \A i \in 1..Len(processed_host_records),
              j \in 1..Len(processed_host_records) :
                processed_host_records[i].VM = processed_host_records[j].VM => i = j

\* C20 witness: two workers, no failed query, and the records collected in
\* the reverse of the submission order.
C20_Witness ==
    /\ mainpc = "done"
    /\ faults = NoFaults
    /\ threads = 2
    /\ Len(processed_host_records) = 2
    /\ processed_host_records[1].VM = "vm2"
    /\ processed_host_records[2].VM = "vm1"

(***************************************************************************)
(* Order of the pricing models (SpecMachine)                               *)
(***************************************************************************)
ThreeYear == CHOOSE i \in 1..Len(pricing_models) : pricing_models[i] = "3-year Reserved"

\* C21, the steps: Cost Details gets its entries one at a time, each after the
\* entries of the pricing models before it, and storage is costed after all.
C21_OneModelAfterAnother ==
    /\ m_cost_details' # m_cost_details =>
          /\ mpc = "pricing"
          /\ Len(m_cost_details') = Len(m_cost_details) + 1
          /\ SubSeq(m_cost_details', 1, Len(m_cost_details)) = m_cost_details
    /\ mpc' \in {"storage", "total", "returned"} =>
          Len(m_cost_details') = Len(pricing_models)

\* C21, the record: its Instance Type and Instance Cost are those of the
\* 3-year Reserved entry of its Cost Details.
C21_PrimaryIsThreeYear ==
    mpc = "returned" =>
        /\ pricing_models = <<"onDemand", "1-year Reserved", "3-year Reserved">>
        /\ m_record.CostDetails = m_cost_details
        /\ m_record.Type = m_record.CostDetails[ThreeYear].Type
        /\ m_record.Cost = m_record.CostDetails[ThreeYear].Cost
        /\ m_record.none = m_record.CostDetails[ThreeYear].none

\* C21: the three models are evaluated one after the other in the fixed order,
\* and the record's Instance Type and Cost are the 3-year Reserved entry.
C21_ThreeYearIsPrimary == [][C21_OneModelAfterAnother]_vars /\ []C21_PrimaryIsThreeYear

\* C21 witness: on demand picked b, 3-year Reserved picked c, and the record
\* carries c.
C21_Witness ==
    /\ mpc = "returned"
    /\ m_record.CostDetails[1].Type = "b"
    /\ m_record.CostDetails[3].Type = "c"
    /\ m_record.Type = "c"


(***************************************************************************)
(* SpecLoad: main() from the catalog to the loaded tables                  *)
(* (main.py 107-131, data_processing.py 54-151, aws_instance.py 58-83).    *)
(* A cell of a table is a sequence of characters.  Host RAM is held in     *)
(* half GiB like the catalog's.                                            *)
(***************************************************************************)
MaxRows == 1

\* int(text): ValueError unless the text is a run of digits.
int_cell(text) ==
    IF text = <<>> \/ \E i \in 1..Len(text) : text[i] \notin SeqToSet(Digits)
    THEN Raise("ValueError")
    ELSE Ok(int_digits(text))

\* round(n / d) of Python 3: to the nearest whole number, a tie to the even one.
round_half_even(n, d) ==
    LET q == n \div d
        r == n % d
    IN  IF 2 * r < d THEN q
        ELSE IF 2 * r > d THEN q + 1
        ELSE IF q % 2 = 0 THEN q ELSE q + 1

\* int(sorted(instance_types, key=CPU)[0]['CPU']): IndexError on an empty catalog.
get_minimum_cpu_size(instance_types) ==
    IF instance_types = <<>> THEN Raise("IndexError")
    ELSE Ok(Min({instance_types[i].CPU : i \in 1..Len(instance_types)}))

\* float(sorted(instance_types, key=RAM)[0]['RAM']): IndexError on an empty catalog.
get_minimum_ram_size(instance_types) ==
    IF instance_types = <<>> THEN Raise("IndexError")
    ELSE Ok(Min({instance_types[i].RAM : i \in 1..Len(instance_types)}))

\* Mutant: the rounded size, whatever the minimum.
set_minimum_ram_size_for_instance_unclamped(ram_text, minimum) ==
    LET n == int_cell(ram_text)
    IN  IF ~n.ok THEN n ELSE Ok(2 * round_half_even(n.val, 1000))

\* gig_ram = float(round(int(ram) / 1000)); the larger of gig_ram and min_ram.
set_minimum_ram_size_for_instance(ram_text, minimum) ==
    LET n == int_cell(ram_text)
        gig_ram == 2 * round_half_even(n.val, 1000)
    IN  IF ~n.ok THEN n
        ELSE Ok(IF gig_ram > minimum THEN gig_ram ELSE minimum)

RECURSIVE load_host_records_from_csv(_, _)
\* One record per row after the header, the CPU count raised to min_cpu;
\* ValueError at the first CPU cell that is no number.
load_host_records_from_csv(rows, minimum) ==
    IF rows = <<>> THEN Ok(<<>>)
    ELSE LET row == rows[Len(rows)]
             before == load_host_records_from_csv(SubSeq(rows, 1, Len(rows) - 1), minimum)
             n == int_cell(row.CPUs)
         IN  IF ~before.ok THEN before
             ELSE IF ~n.ok THEN n
             ELSE Ok(Append(before.val,
                            [CPUs |-> IF n.val < minimum THEN minimum ELSE n.val,
                             RAM |-> row.Max, VM |-> row.VM, OS |-> row.OS]))

RECURSIVE process_host_ram(_, _)
\* host["RAM"] = set_minimum_ram_size_for_instance(host["RAM"] without commas,
\* min_ram) for every host; ValueError at the first cell that is no number.
process_host_ram(loaded, minimum) ==
    IF loaded = <<>> THEN Ok(<<>>)
    ELSE LET host == loaded[Len(loaded)]
             before == process_host_ram(SubSeq(loaded, 1, Len(loaded) - 1), minimum)
             size == set_minimum_ram_size_for_instance(
                         SelectSeq(host.RAM, LAMBDA ch : ch # ","), minimum)
         IN  IF ~before.ok THEN before
             ELSE IF ~size.ok THEN size
             ELSE Ok(Append(before.val, [host EXCEPT !.RAM = size.val]))

\* The rows of the vDisk tab, or [] with a warning when the header lacks the
\* capacity or the machine-name column.
load_storage_records_from_csv(table) ==
    IF ~table.columns THEN <<>> ELSE table.rows

CpuCells == {<<"1">>, <<"2">>, <<"4">>, <<"8">>, <<"x">>}
RamCells == {<<"5", "0", "0">>, <<"2", ",", "5", "0", "0">>, <<"8", ",", "1", "9", "2">>,
             <<"4", "0", ",", "0", "0", "0">>, <<"n">>}
HostRows(n) ==
    {[i \in 1..n |-> [CPUs |-> f[i][1], Max |-> f[i][2], VM |-> VMNames[i],
                      OS |-> <<"Ubuntu">>]] :
        f \in [1..n -> CpuCells \X RamCells]}
HostTables == UNION {HostRows(n) : n \in 0..MaxRows}
DiskTables ==
    {[columns |-> c, rows |-> [i \in 1..n |-> [Capacity |-> <<"5", "0", "0">>,
                                               VM |-> VMNames[1]]]] :
        c \in BOOLEAN, n \in 0..MaxRows}
LoadCatalogs == {<<>>} \cup {c \in Catalogs : Len(c) <= 2}

\* Mutant: an empty catalog gives the minimum sizes 0 and the run goes on.
MainFetch_defaults ==
    /\ lpc = "fetch"
    /\ LET mc == get_minimum_cpu_size(types)
           mr == get_minimum_ram_size(types)
       IN  /\ l_min_cpu' = IF mc.ok THEN mc.val ELSE 0
           /\ l_min_ram' = IF mr.ok THEN mr.val ELSE 0
           /\ lpc' = "load"
           /\ UNCHANGED exit_status
    /\ UNCHANGED <<raw_hosts, disk_table, l_hosts, l_disks, rvars, pvars, mvars, ovars, cvars>>

\* main.py 107-115: the catalog and its minimum sizes; any exception returns 1.
MainFetch ==
    /\ lpc = "fetch"
    /\ LET mc == get_minimum_cpu_size(types)
           mr == get_minimum_ram_size(types)
       IN  IF mc.ok /\ mr.ok
           THEN /\ l_min_cpu' = mc.val
                /\ l_min_ram' = mr.val
                /\ lpc' = "load"
                /\ UNCHANGED exit_status
           ELSE /\ exit_status' = 1
                /\ lpc' = "exited"
                /\ UNCHANGED <<l_min_cpu, l_min_ram>>
    /\ UNCHANGED <<raw_hosts, disk_table, l_hosts, l_disks, rvars, pvars, mvars, ovars, cvars>>

\* main.py 118-126: the host and disk records; any exception returns 1.
MainLoad ==
    /\ lpc = "load"
    /\ LET loaded == load_host_records_from_csv(raw_hosts, l_min_cpu)
           sized == IF loaded.ok THEN process_host_ram(loaded.val, l_min_ram) ELSE loaded
       IN  IF sized.ok
           THEN /\ l_hosts' = sized.val
                /\ l_disks' = load_storage_records_from_csv(disk_table)
                /\ lpc' = "check"
                /\ UNCHANGED exit_status
           ELSE /\ exit_status' = 1
                /\ lpc' = "exited"
                /\ UNCHANGED <<l_hosts, l_disks>>
    /\ UNCHANGED <<raw_hosts, disk_table, l_min_cpu, l_min_ram, rvars, pvars, mvars, ovars, cvars>>

\* main.py 128-131: without hosts or without disks the run returns 1; otherwise
\* it goes on to process the hosts.
MainCheck ==
    /\ lpc = "check"
    /\ IF l_hosts = <<>> \/ l_disks = <<>>
       THEN /\ exit_status' = 1
            /\ lpc' = "exited"
       ELSE /\ lpc' = "processing"
            /\ UNCHANGED exit_status
    /\ UNCHANGED <<raw_hosts, disk_table, l_min_cpu, l_min_ram, l_hosts, l_disks,
                   rvars, pvars, mvars, ovars, cvars>>

InitLoad ==
    /\ cpu = 0
    /\ ram = 0
    /\ min_cpu = 0
    /\ min_ram = 0
    /\ found = <<>>
    /\ rpc = "idle"
    /\ iters = 0
    /\ callNo = 0
    /\ prev = NoCall
    /\ PriceIdle
    /\ RunIdle
    /\ OsIdle
    /\ MachineIdle
    /\ types \in LoadCatalogs
    /\ raw_hosts \in HostTables
    /\ disk_table \in DiskTables
    /\ l_min_cpu = -1
    /\ l_min_ram = -1
    /\ l_hosts = <<>>
    /\ l_disks = <<>>
    /\ exit_status = -1
    /\ lpc = "fetch"

NextLoad ==
    \/ MainFetch
    \/ MainLoad
    \/ MainCheck

SpecLoad == InitLoad /\ [][NextLoad]_vars

\* C22: once the host records are loaded and their RAM processed, every
\* machine has at least the smallest vCPU count and at least the smallest
\* memory size of the catalog, whatever the raw cells were.
C22_RequirementsClamped ==
    lpc \in {"check", "processing", "exited"} =>
        \A i \in 1..Len(l_hosts) :
            /\ types # <<>>
            /\ l_hosts[i].CPUs >= Min({types[j].CPU : j \in 1..Len(types)})
            /\ l_hosts[i].RAM >= Min({types[j].RAM : j \in 1..Len(types)})

\* A row with 1 CPU and 500 MB is loaded as the catalog's minimum sizes.
C22_Witness ==
    /\ lpc = "check"
    /\ Len(l_hosts) >= 1
    /\ raw_hosts[1].CPUs = <<"1">>
    /\ raw_hosts[1].Max = <<"5", "0", "0">>
    /\ l_hosts[1].CPUs = 2
    /\ l_hosts[1].RAM = 8

\* C23: a disk table without a required column does not end the run: with
\* machines loaded, main() goes on to process them.
C23_MissingColumnGoesOn ==
    (~disk_table.columns /\ l_hosts # <<>>) => lpc # "exited"

\* C24: with an empty catalog main() returns 1 from its first step: no host
\* is loaded and the processing of hosts is never reached.
C24_EmptyCatalogFatal ==
    (types = <<>> /\ lpc # "fetch") =>
        /\ lpc = "exited"
        /\ exit_status = 1
        /\ l_hosts = <<>>

\* An empty catalog with a well-formed host row and disk table: the run has ended.
C24_Witness ==
    /\ types = <<>>
    /\ lpc = "exited"
    /\ exit_status = 1
    /\ Len(raw_hosts) >= 1
    /\ raw_hosts[1].CPUs = <<"4">>
    /\ raw_hosts[1].Max = <<"8", ",", "1", "9", "2">>
    /\ disk_table.columns
    /\ disk_table.rows # <<>>


\* A step of the worker that runs machine h.
WorkerStep(h) == task'[h] # task[h]

\* C25: no step writes the catalog, the disk list or a machine's input
\* record, and a step of a worker writes, of the state the workers share,
\* the caches of prices only: the other machines' calls and everything the
\* collector holds are left as they were.
C25_StepFrame ==
    /\ types' = types
    /\ main_disks' = main_disks
    /\ hosts' = hosts
    /\ \A h \in 1..Len(hosts) :
          WorkerStep(h) =>
              /\ \A g \in 1..Len(hosts) : g # h => task'[g] = task[g]
              /\ UNCHANGED <<threads, consumed, processed_host_records, processed_count,
                             main_invalid_instance_types_count, mainpc>>

\* A collected record is a value of its own, beside the input record.
C25_RecordIsNew ==
    \A i \in 1..Len(processed_host_records) :
        \E h \in consumed :
            /\ task[h].pc = "finished"
            /\ processed_host_records[i] = RecordOf(h)
            /\ DOMAIN processed_host_records[i] # DOMAIN hosts[h]

C25_InputsReadOnly == [][C25_StepFrame]_vars /\ []C25_RecordIsNew

\* Both caches were written and a record was collected, inputs as submitted.
C25_Witness ==
    /\ cache # {}
    /\ storage_cache >= 0
    /\ processed_host_records # <<>>
    /\ main_disks = RunDisks
    /\ types = RunCatalog


Hung(h) == h \in 1..Len(hosts) /\ task[h].pc = "hung"

\* The collector has taken the future of machine g, with its record if the
\* call returned one.
Taken(g) ==
    /\ g \in consumed
    /\ task[g].pc = "finished" => RecordOf(g) \in SeqToSet(processed_host_records)

\* C26: when the price lookup of one machine never returns and the pool has
\* two workers or more, every other machine is processed and collected in
\* the end.
C26_HangBlocksOneWorker ==
    ((\E h \in 1..Len(hosts) : Hung(h)) /\ threads >= 2)
        ~> (\A g \in 1..Len(hosts) : Hung(g) \/ Taken(g))

\* Machine 1 hangs and machine 2 was collected with its record.
C26_Witness ==
    /\ Hung(1)
    /\ Len(hosts) >= 2
    /\ 2 \in consumed
    /\ task[2].pc = "finished"
    /\ RecordOf(2) \in SeqToSet(processed_host_records)


\* The machines whose call ended with a record, with None, with an exception.
WithRecord == {h \in 1..Len(hosts) : task[h].pc = "finished"}
Skipped == {h \in 1..Len(hosts) : task[h].pc = "returned_none"}
Failed == {h \in 1..Len(hosts) : task[h].pc = "raised"}

\* At every moment the collected records are those of distinct machines whose
\* call was taken, and once the pool is left every machine was taken once:
\* with its record, as skipped or as failed.
C27_EachOnce ==
    /\ Len(processed_host_records) <= Len(hosts)
    /\ Len(processed_host_records) = Cardinality(consumed \cap WithRecord)
    /\ \A i, j \in 1..Len(processed_host_records) :
          processed_host_records[i].VM = processed_host_records[j].VM => i = j
    /\ \A i \in 1..Len(processed_host_records) :
          \E h \in consumed \cap WithRecord : processed_host_records[i] = RecordOf(h)
    /\ processed_count = Cardinality(consumed \cap (WithRecord \cup Skipped))
    /\ mainpc = "done" =>
          /\ consumed = 1..Len(hosts)
          /\ consumed = WithRecord \cup Skipped \cup Failed

\* C27: the collected records never outnumber the machines and no machine
\* has two; and in a run where every call of the price source returns (no
\* machine hangs) the pool is left in the end, every submitted machine
\* accounted for once.
C27_BatchCompletes ==
    /\ []C27_EachOnce
    /\ <>(mainpc = "done" \/ \E h \in 1..Len(hosts) : Hung(h))

\* A finished batch of two machines: one record and one failed machine.
C27_Witness ==
    /\ mainpc = "done"
    /\ Len(hosts) = 2
    /\ WithRecord = {1}
    /\ Failed = {2}
    /\ Len(processed_host_records) = 1
    /\ \A h \in 1..Len(hosts) : ~Hung(h)


\* The distinct RAM values of the catalog.
RamTiers == {types[i].RAM : i \in 1..Len(types)}

\* A pass of the while loop that stays in the loop moves min_ram to a larger
\* value of the catalog.
C28_TierGrows ==
    (rpc = "loop" /\ rpc' = "loop" /\ iters' = iters + 1) =>
        /\ min_ram' > min_ram
        /\ min_ram' \in RamTiers

\* No call takes more passes than the catalog has RAM values, and what a call
\* returns is not empty.
C28_Bounded ==
    /\ iters <= Cardinality(RamTiers)
    /\ rpc = "returned" => found # <<>>

\* C28: the search loop of get_correct_instance_size ends: every pass moves
\* the RAM tier up, there are no more passes than distinct RAM values, and a
\* call in the loop returns a non-empty list or raises in the end.
C28_LoopTerminates ==
    /\ [][C28_TierGrows]_vars
    /\ []C28_Bounded
    /\ (rpc = "loop") ~> (rpc \in {"returned", "raised"})

\* A call that returned on its second pass.
C28_Witness ==
    /\ rpc = "returned"
    /\ iters = 2
    /\ found # <<>>


\* The machine a collected record is of.
MachineOf(record) == CHOOSE h \in 1..Len(hosts) : hosts[h].VM = record.VM

\* The price answers are unchanged for a record: get_price still gives what
\* it gave to the call that produced the record.
AnswersUnchanged(record) ==
    LET t == task[MachineOf(record)]
        n == Len(t.instances)
    IN  \A k \in 1..Len(t.seen) :
            cache_get(cache, <<t.instances[((k - 1) % n) + 1], record.OS,
                               pricing_models[((k - 1) \div n) + 1]>>)
                = [hit |-> TRUE, val |-> t.seen[k]]

\* C29: find_aws_instance on a record it produced gives that record when the
\* price answers are unchanged, so the rows the CSV writer reports are the
\* records collected; the writer fails only on a run without any record.
C29_RecostIsSameRecord ==
    /\ mainpc = "done" =>
          \A i \in 1..Len(processed_host_records) :
              AnswersUnchanged(processed_host_records[i]) =>
                  find_aws_instance(processed_host_records[i])
                      = {Ok(processed_host_records[i])}
    /\ (/\ mainpc = "reported"
        /\ \A i \in 1..Len(processed_host_records) :
               AnswersUnchanged(processed_host_records[i]))
          => report_rows = processed_host_records
    /\ mainpc = "report_failed" => processed_host_records = <<>>

\* A report of two records, one of them with an offering found unavailable
\* after a failed query.
C29_Witness ==
    /\ mainpc = "reported"
    /\ Len(report_rows) = 2
    /\ report_rows = processed_host_records
    /\ \A i \in 1..Len(processed_host_records) :
           AnswersUnchanged(processed_host_records[i])
    /\ faults # NoFaults
    /\ report_rows[1].CostDetails[1].none
    /\ ~report_rows[2].CostDetails[1].none


\* The candidate get_least_expensive_option returned.
Selected == CHOOSE i \in 1..Len(instances) : instances[i] = result.Type

====
